---- MODULE Spec2Model ----
(***************************************************************************)
(* Clinical-protocol analyzer (hadesus/analyzerforCP, backend).            *)
(*                                                                         *)
(* Spec    : run_analysis_pipeline (main_pipeline.py) with its per-drug    *)
(*           fan-out of process_single_drug coroutines, interleaved at     *)
(*           their await points.                                           *)
(* SpecReg : check_all_regulators (services/regulatory_checker.py and the  *)
(*           backend/backend variant), one call, all outcomes of the four  *)
(*           individual checks.                                            *)
(*                                                                         *)
(* Python values are records tagged by t; strings are sequences of         *)
(* one-character strings, so that strip(), lower() and truthiness are      *)
(* computed and not assumed.                                               *)
(***************************************************************************)
EXTENDS Integers, Sequences, FiniteSets, TLC

VARIABLES
    pc,                 \* position of run_analysis_pipeline
    document,           \* the uploaded file as python-docx reads it
    full_text,          \* main_pipeline.py:226
    summary_task,       \* generate_document_summary coroutine: pending or its result
    extraction_task,    \* extract_drugs_from_text coroutine: pending or its result
    document_summary,   \* main_pipeline.py:240
    extracted_drugs,    \* main_pipeline.py:240
    drugs,              \* the process_single_drug coroutines, by position
    completed,          \* positions of the coroutines in the order they finished
    llm_calls,          \* LLM requests sent by the document stage, and the
                        \* tasks whose request raised
    result,             \* what run_analysis_pipeline returned
    rpc,                \* position of check_all_regulators (SpecReg)
    rvariant,           \* which source variant of check_all_regulators runs
    rinput,             \* its arguments
    rchecks,            \* the four check coroutines: pending or their outcome
    rreplies,           \* what each check's external request answered, and
                        \* under DOSAGE what the comparison request answered
    rstatus,            \* regulatory_status / results dict being built
    rresult,            \* what check_all_regulators returned
    now,                \* time.monotonic(), in units of req_interval (SpecRate)
    reqs_per_second,    \* the argument PubMedClient was constructed with
    request_timestamps, \* PubMedClient.request_timestamps, the shared deque
    callers,            \* the coroutines inside _rate_limit
    granted,            \* clock readings at which _rate_limit returned
    sleeps,             \* how many times _rate_limit slept
    lpc,                \* position of the literature search (SpecLit)
    lvariant,           \* which source variant of the client runs
    lredis,             \* is redis_client set (module level, lines 29-35)
    lstore,             \* what redis holds: cache key -> bytes
    lwritten,           \* the article list whose dump each live key holds
    lreq,               \* arguments of the search in progress
    lstrategy,          \* index of the strategy being tried
    larticles,          \* the list built from the fetched records
    lcalls,             \* redis and Entrez requests of this search, in order
    lret,               \* what the search returned
    lhits,              \* cache hits in a row, by the searches so far
    ldone,              \* searches finished
    lacquired,          \* _rate_limit calls of this search that have returned
    fcall,              \* the function called and its argument (SpecFn)
    freturn,            \* what it returned
    hstage,             \* the stage a run of the pipeline is in (SpecHang)
    hstatus             \* each external call site of the run: idle, waiting
                        \* for its answer, hung, or resolved

vars == <<pc, document, full_text, summary_task, extraction_task,
          document_summary, extracted_drugs, drugs, completed, llm_calls,
          result, rpc, rvariant, rinput, rchecks, rreplies, rstatus, rresult,
          now, reqs_per_second, request_timestamps, callers, granted, sleeps,
          lpc, lvariant, lredis, lstore, lwritten, lreq, lstrategy, larticles,
          lcalls, lret, lhits, ldone, lacquired, fcall, freturn, hstage,
          hstatus>>

pipeVars == <<pc, document, full_text, summary_task, extraction_task,
              document_summary, extracted_drugs, drugs, completed, llm_calls,
              result>>

regVars == <<rpc, rvariant, rinput, rchecks, rreplies, rstatus, rresult>>

rateVars == <<now, reqs_per_second, request_timestamps, callers, granted, sleeps>>

hangVars == <<hstage, hstatus>>

litVars == <<lpc, lvariant, lredis, lstore, lwritten, lreq, lstrategy, larticles,
             lcalls, lret, lhits, ldone, lacquired>>

fnVars == <<fcall, freturn>>

----------------------------------------------------------------------------
(* Bounds *)

MaxDrugs == 2       \* longest list the extraction call returns
MaxCallers == 2     \* coroutines that share the PubMed client
MaxCalls == 20      \* _rate_limit calls in one behaviour
MaxClock == 20      \* last clock reading, in units of req_interval
MaxSearches == 3    \* literature searches in one behaviour
MaxWords == 3       \* words in a raw answer of the model
MaxHung == 1        \* requests of one run that never get their answer
MinRate == 8        \* smallest reqs_per_second a client is constructed with

----------------------------------------------------------------------------
(* Python values *)

PyNone == [t |-> "None"]
PyAbsent == [t |-> "absent"]                 \* a key a dict does not have
PyStr(s) == [t |-> "str", s |-> s]
PyExc(name) == [t |-> "exc", name |-> name]  \* an exception instance
Pending == [t |-> "pending"]                 \* a coroutine not finished yet
Unset == [t |-> "unset"]                     \* a local not assigned yet

IsStr(x) == x.t = "str"
IsExc(x) == x.t = "exc"

\* bool(x) for None and str
Truthy(x) == IsStr(x) /\ Len(x.s) > 0

Whitespace == {" ", "\n", "\t"}

RECURSIVE LStrip(_)
LStrip(s) ==
    IF Len(s) > 0 /\ Head(s) \in Whitespace THEN LStrip(Tail(s)) ELSE s

RECURSIVE RStrip(_)
RStrip(s) ==
    IF Len(s) > 0 /\ s[Len(s)] \in Whitespace
    THEN RStrip(SubSeq(s, 1, Len(s) - 1))
    ELSE s

\* str.strip()
Strip(s) == RStrip(LStrip(s))

LowerChar(c) ==
    CASE c = "A" -> "a"
      [] c = "U" -> "u"
      [] c = "T" -> "t"
      [] c = "V" -> "v"
      [] c = "L" -> "l"
      [] c = "H" -> "h"
      [] c = "M" -> "m"
      [] c = "O~" -> "o~"
      [] c = "N~" -> "n~"
      [] OTHER -> c

\* str.lower()
Lower(s) == [i \in 1..Len(s) |-> LowerChar(s[i])]

RECURSIVE Join(_, _)
\* sep.join(parts)
Join(sep, parts) ==
    IF Len(parts) = 0 THEN <<>>
    ELSE IF Len(parts) = 1 THEN parts[1]
    ELSE parts[1] \o sep \o Join(sep, Tail(parts))

S_empty == <<>>
S_blank == <<" ", " ">>
S_unknown == <<"u", "n", "k", "n", "o", "w", "n">>
S_Unknown == <<"U", "n", "k", "n", "o", "w", "n">>
\* 'не определен', transliterated
S_ne_opredelen == <<"n", "e", " ", "o", "p", "r", "e", "d", "e", "l", "e", "n">>
S_aspirin == <<"A", "s", "p", "i", "r", "i", "n">>
S_text == <<"T", "x">>

----------------------------------------------------------------------------
(* services/drug_normalizer.py *)

\* Replies of the RxNav terminology service to the two requests of
\* _normalize_with_rxnav: a failed request, no rxcui / no ingredient group,
\* or the name of the first ingredient concept.
RxNavError == [kind |-> "raise"]
RxNavNotFound == [kind |-> "not_found"]
RxNavName(s) == [kind |-> "name", name |-> PyStr(s)]

\* Replies of the LLM to a generate_content_async request.
LlmError == [kind |-> "raise"]
LlmText(s) == [kind |-> "text", text |-> s]

\* _normalize_with_rxnav: the ingredient name, or None on any failure
NormalizeWithRxnav(drug_name, reply) ==
    IF reply.kind = "name" THEN reply.name ELSE PyNone

\* _normalize_with_gemini: line 77 uses re, which this module never imports;
\* the NameError is caught at line 81 like a failed request, so every path
\* returns None.
NormalizeWithGemini(drug_name, reply) ==
    IF reply.kind = "raise"
    THEN PyNone
    ELSE LET stripped == Strip(reply.text)    \* line 74
         IN  PyNone                           \* line 77 raises NameError -> 81-83

NormalizationNA ==
    [t |-> "dict", inn_name |-> PyNone, source |-> "N/A", confidence |-> "none"]
NormalizationError ==
    [t |-> "dict", inn_name |-> PyNone, source |-> "Error", confidence |-> "none"]

\* normalize_drug
NormalizeDrug(drug_name, rxnav, llm) ==
    IF ~Truthy(drug_name) \/ Len(Strip(drug_name.s)) = 0
    THEN NormalizationNA
    ELSE LET name == PyStr(Strip(drug_name.s))
             fromRxnav == NormalizeWithRxnav(name, rxnav)
             fromLlm == NormalizeWithGemini(name, llm)
         IN  IF Truthy(fromRxnav)
             THEN [t |-> "dict", inn_name |-> fromRxnav, source |-> "RxNav",
                   confidence |-> "high"]
             ELSE IF Truthy(fromLlm)
             THEN [t |-> "dict", inn_name |-> fromLlm, source |-> "Gemini",
                   confidence |-> "medium"]
             ELSE NormalizationNA

\* the RxNav replies a lookup of drug_name can see: a failure, nothing found,
\* or an ingredient whose name field is the queried name or, for a real drug
\* name, blank
RxNavReplies(drug_name) ==
    IF IsStr(drug_name) /\ Strip(drug_name.s) = S_aspirin
    THEN {RxNavError, RxNavNotFound, RxNavName(S_aspirin), RxNavName(S_blank)}
    ELSE IF IsStr(drug_name)
    THEN {RxNavNotFound, RxNavName(Strip(drug_name.s))}
    ELSE {RxNavNotFound}
NormalizerLlmReplies == {LlmError, LlmText(S_aspirin)}

----------------------------------------------------------------------------
(* services/regulatory_checker.py ("services") and                         *)
(* backend/services/regulatory_checker.py ("backend")                      *)

Variants == {"services", "backend"}

\* substring test: sub in s
Contains(s, sub) ==
    \E i \in 0..(Len(s) - Len(sub)) : SubSeq(s, i + 1, i + Len(sub)) = sub

T_approved == <<"a", "p", "p", "r", "o", "v", "e", "d">>
T_not_approved == <<"n", "o", "t", " ">> \o T_approved
T_found == <<"f", "o", "u", "n", "d">>
T_not_found == <<"n", "o", "t", " ">> \o T_found
T_unclear == <<"n", "/", "a">>
S_dosage == <<"1", "g">>

\* HTTP replies of openFDA and EMA: the request fails (transport error,
\* raise_for_status, undecodable body), or the decoded payload.
HttpError == [kind |-> "raise"]
FdaResults(dosage) == [kind |-> "ok", found |-> TRUE, dosage |-> PyStr(dosage)]
FdaNoResults == [kind |-> "ok", found |-> FALSE, dosage |-> PyNone]
EmaList(n) == [kind |-> "ok", len |-> n]

\* an LLM reply: its text, and the value json.loads gives for it (PyAbsent
\* when the text is not JSON)
LlmReply(text, json) == [kind |-> "text", text |-> text, json |-> json]
StatusDict(status) == [t |-> "dict", status |-> status]

\* _check_fda
CheckFda(variant, inn_name, reply) ==
    IF reply.kind = "raise"
    THEN [t |-> "dict", status |-> "Error", standard_dosage_text |-> PyNone]
    ELSE IF reply.found
    THEN [t |-> "dict",
          status |-> IF variant = "services"
                     THEN "Likely Approved (Label Found)" ELSE "Approved",
          standard_dosage_text |-> reply.dosage]
    ELSE [t |-> "dict", status |-> "Not Found", standard_dosage_text |-> PyNone]

\* _check_ema
CheckEma(variant, inn_name, reply) ==
    IF reply.kind = "raise"
    THEN StatusDict("Error")
    ELSE IF reply.len > 0
    THEN StatusDict(IF variant = "services" THEN "Likely Found" ELSE "Found")
    ELSE StatusDict("Not Found")

\* _check_with_gemini
CheckWithGemini(variant, inn_name, regulator, reply) ==
    IF reply.kind = "raise"
    THEN IF variant = "services"
         THEN [t |-> "dict", status |-> "Error", note |-> "error"]
         ELSE StatusDict("Error")
    ELSE IF variant = "services"
    THEN IF reply.json # PyAbsent
         THEN reply.json                               \* line 128
         ELSE LET text == Lower(reply.text)            \* lines 131-138
                  status == IF Contains(text, T_approved) THEN "Approved"
                            ELSE IF Contains(text, T_not_approved) THEN "Not Approved"
                            ELSE "Unknown"
              IN  [t |-> "dict", status |-> status, note |-> "from text"]
    ELSE LET text == Lower(Strip(reply.text))          \* backend lines 71-80
             status == IF Contains(text, T_found) /\ ~Contains(text, T_not_found)
                       THEN "Found"
                       ELSE IF Contains(text, T_not_found) THEN "Not Found"
                       ELSE "Unknown"
         IN  StatusDict(status)

\* the tasks dict, in insertion order
Regulators == <<"FDA", "EMA", "BNF", "WHO_EML">>
RegulatorSet == {Regulators[i] : i \in 1..Len(Regulators)}

\* fault injection: the HTTP checks without their try/except
RunCheck_m(variant, key, inn_name, reply) ==
    IF key \in {"FDA", "EMA"} /\ reply.kind = "raise"
    THEN PyExc("HTTPError")
    ELSE CASE key = "FDA" -> CheckFda(variant, inn_name, reply)
           [] key = "EMA" -> CheckEma(variant, inn_name, reply)
           [] key = "BNF" -> CheckWithGemini(variant, inn_name, "BNF", reply)
           [] key = "WHO_EML" -> CheckWithGemini(variant, inn_name, "WHO", reply)

\* one individual check, by key
RunCheck(variant, key, inn_name, reply) ==
    CASE key = "FDA" -> CheckFda(variant, inn_name, reply)
      [] key = "EMA" -> CheckEma(variant, inn_name, reply)
      [] key = "BNF" -> CheckWithGemini(variant, inn_name, "BNF", reply)
      [] key = "WHO_EML" -> CheckWithGemini(variant, inn_name, "WHO", reply)

\* fault injection: entries whose check failed are left out of the dict
CombineResults_m(variant, outcomes) ==
    [k \in {x \in DOMAIN outcomes :
                ~IsExc(outcomes[x])
                /\ (outcomes[x].t = "dict" => outcomes[x].status # "Error")} |->
        outcomes[k]]

\* services: dict(zip(tasks.keys(), results)) after gather(return_exceptions=True);
\* backend: the try/except around each await
CombineResults(variant, outcomes) ==
    [k \in DOMAIN outcomes |->
        IF variant = "backend" /\ IsExc(outcomes[k])
        THEN StatusDict("Error")
        ELSE outcomes[k]]

DosageMismatch == [t |-> "dict", comparison_result |-> "mismatch"]

\* line 194-195: regulatory_status.get("FDA", {}) is a dict with a truthy
\* standard_dosage_text
HasStandardDosage(status) ==
    LET fda == IF "FDA" \in DOMAIN status THEN status["FDA"] ELSE [t |-> "dict"]
    IN  /\ fda.t = "dict"
        /\ "standard_dosage_text" \in DOMAIN fda
        /\ Truthy(fda.standard_dosage_text)

T_within == <<"w", "i", "t", "h", "i", "n", "_", "r", "a", "n", "g", "e">>
T_below == <<"b", "e", "l", "o", "w", "_", "r", "a", "n", "g", "e">>
T_above == <<"a", "b", "o", "v", "e", "_", "r", "a", "n", "g", "e">>

\* _compare_dosages_with_gemini; called is whether the LLM request is sent
DosageNeedsLlm(source_dosage, standard_dosage_text) ==
    Truthy(source_dosage) /\ Truthy(standard_dosage_text)

CompareDosages(variant, source_dosage, standard_dosage_text, reply) ==
    IF ~DosageNeedsLlm(source_dosage, standard_dosage_text)
    THEN DosageMismatch
    ELSE IF reply.kind = "raise"
    THEN DosageMismatch
    ELSE IF variant = "services"
    THEN IF reply.json # PyAbsent THEN reply.json ELSE DosageMismatch
    ELSE LET text == Lower(Strip(reply.text))
         IN  [t |-> "dict",
              comparison_result |->
                  IF Contains(text, T_within) THEN "within_range"
                  ELSE IF Contains(text, T_below) THEN "below_range"
                  ELSE IF Contains(text, T_above) THEN "above_range"
                  ELSE "mismatch"]

\* the dict check_all_regulators returns
RegulatoryReturn(status, dosage_comparison) ==
    [t |-> "dict", regulatory_checks |-> status, dosage_check |-> dosage_comparison]

\* the replies the individual checks can see
FdaReplies == {HttpError, FdaNoResults, FdaResults(S_dosage), FdaResults(S_empty)}
EmaReplies == {HttpError, EmaList(0), EmaList(1)}
GeminiReplies ==
    {LlmError,
     LlmReply(T_approved, [t |-> "dict", status |-> "Approved", note |-> "ok"]),
     LlmReply(T_approved, PyStr(T_approved)),
     LlmReply(T_not_approved, PyAbsent),
     LlmReply(T_not_found, PyAbsent),
     LlmReply(T_found, PyAbsent)}
DosageReplies ==
    {LlmError,
     LlmReply(T_within, [t |-> "dict", comparison_result |-> "within_range"]),
     LlmReply(T_above, PyAbsent),
     LlmReply(T_unclear, PyAbsent),
     LlmReply(T_unclear, [t |-> "dict", comparison_result |-> "unclear"]),
     LlmReply(T_unclear, [t |-> "dict"])}

CheckReplies(key) ==
    CASE key = "FDA" -> FdaReplies
      [] key = "EMA" -> EmaReplies
      [] OTHER -> GeminiReplies

\* check_all_regulators as one call: env gives whether the AsyncClient context
\* could be entered and the replies of the five external requests
CheckAllRegulators(variant, inn_name, source_dosage, env) ==
    IF ~env.client_ok
    THEN PyExc("ClientError")
    ELSE LET outcomes == [k \in RegulatorSet |->
                             RunCheck(variant, k, inn_name, env.replies[k])]
             status == CombineResults(variant, outcomes)
             dosage == IF HasStandardDosage(status)
                       THEN CompareDosages(variant, source_dosage,
                                           status["FDA"].standard_dosage_text,
                                           env.dosage_reply)
                       ELSE DosageMismatch
         IN  RegulatoryReturn(status, dosage)

----------------------------------------------------------------------------
(* check_all_regulators step by step (SpecReg) *)

RegInputs ==
    [inn_name : {PyStr(S_aspirin)},
     source_dosage : {PyStr(S_empty), PyStr(S_dosage)}]

\* lines 180-188: enter the client context, create the four coroutines
RegLaunch ==
    /\ rpc = "start"
    /\ \E client_ok \in BOOLEAN :
          IF client_ok
          THEN /\ rchecks' = [k \in RegulatorSet |-> Pending]
               /\ rpc' = "checks"
               /\ rresult' = rresult
          ELSE /\ rresult' = PyExc("ClientError")
               /\ rpc' = "done"
               /\ rchecks' = rchecks
    /\ UNCHANGED <<rvariant, rinput, rreplies, rstatus>>
    /\ UNCHANGED <<pipeVars, rateVars, litVars, fnVars, hangVars>>

\* positions of the tasks dict before key
Earlier(key) ==
    {Regulators[j] : j \in {i \in 1..Len(Regulators) :
                              \E m \in 1..Len(Regulators) :
                                  Regulators[m] = key /\ i < m}}

\* a check that has started and not finished.  services line 188: gather
\* schedules the four coroutines as tasks at once; backend lines 139-145:
\* the loop awaits the coroutines one by one, and a coroutine does not run
\* before it is awaited, so a check starts only when the ones before it in
\* the dict have finished
InFlight(variant, checks, key) ==
    /\ checks[key] = Pending
    /\ variant = "backend" => \A e \in Earlier(key) : checks[e] # Pending

\* a check in flight finishes; in the services variant in any order
RegCheckDone(key) ==
    /\ rpc = "checks"
    /\ InFlight(rvariant, rchecks, key)
    /\ \E reply \in CheckReplies(key) :
          /\ rchecks' = [rchecks EXCEPT
                            ![key] = RunCheck(rvariant, key, rinput.inn_name, reply)]
          /\ rreplies' = [rreplies EXCEPT ![key] = reply]
    /\ UNCHANGED <<rpc, rvariant, rinput, rstatus, rresult>>
    /\ UNCHANGED <<pipeVars, rateVars, litVars, fnVars, hangVars>>

\* fault injection: the dosage comparison is decided as soon as the FDA
\* check is over
RegCombine_m ==
    /\ rpc = "checks"
    /\ rchecks["FDA"] # Pending
    /\ LET status == CombineResults(rvariant, rchecks)
       IN  /\ rstatus' = status
           /\ IF /\ HasStandardDosage(status)
                 /\ DosageNeedsLlm(rinput.source_dosage,
                                   status["FDA"].standard_dosage_text)
              THEN /\ rpc' = "dosage"
                   /\ rresult' = rresult
              ELSE /\ rpc' = "done"
                   /\ rresult' = RegulatoryReturn(status, DosageMismatch)
    /\ UNCHANGED <<rvariant, rinput, rchecks, rreplies>>
    /\ UNCHANGED <<pipeVars, rateVars, litVars, fnVars, hangVars>>

\* lines 188-198: all four resolved, build the dict, decide on the dosage check
RegCombine ==
    /\ rpc = "checks"
    /\ \A k \in RegulatorSet : rchecks[k] # Pending
    /\ LET status == CombineResults(rvariant, rchecks)
       IN  /\ rstatus' = status
           /\ IF /\ HasStandardDosage(status)
                 /\ DosageNeedsLlm(rinput.source_dosage,
                                   status["FDA"].standard_dosage_text)
              THEN /\ rpc' = "dosage"
                   /\ rresult' = rresult
              ELSE /\ rpc' = "done"
                   /\ rresult' = RegulatoryReturn(status, DosageMismatch)
    /\ UNCHANGED <<rvariant, rinput, rchecks, rreplies>>
    /\ UNCHANGED <<pipeVars, rateVars, litVars, fnVars, hangVars>>

\* the LLM answers the dosage comparison; lines 196-203
RegDosageDone ==
    /\ rpc = "dosage"
    /\ \E reply \in DosageReplies :
          /\ rresult' = RegulatoryReturn(
                            rstatus,
                            CompareDosages(rvariant, rinput.source_dosage,
                                           rstatus["FDA"].standard_dosage_text, reply))
          /\ rreplies' = [rreplies EXCEPT !["DOSAGE"] = reply]
    /\ rpc' = "done"
    /\ UNCHANGED <<rvariant, rinput, rchecks, rstatus>>
    /\ UNCHANGED <<pipeVars, rateVars, litVars, fnVars, hangVars>>

----------------------------------------------------------------------------
(* services/pubmed_client.py and services/ai_analyzer.py, as               *)
(* process_single_drug sees them                                           *)

PyList(items) == [t |-> "list", items |-> items]
EmptyDict == [k \in {} |-> 0]

InnSentinels == {S_unknown, S_ne_opredelen}

\* how a search ends for process_single_drug: with the articles of the ids
\* PubMed found, or with an exception out of the lines that no try block
\* covers (94-130; line 81 calls .lower() on the disease context, which
\* fails for a value that is not a string)
PubmedReplies == {[kind |-> "raise"], [kind |-> "ids", n |-> 0], [kind |-> "ids", n |-> 2]}

\* PubMedClient.search_articles: lines 93-96 return [] for a missing or
\* sentinel INN before anything is sent
SearchArticles(inn_name, brand_name, reply) ==
    IF ~Truthy(inn_name) \/ Lower(inn_name.s) \in InnSentinels
    THEN PyList(<<>>)
    ELSE IF reply.kind = "raise" THEN PyExc("AttributeError")
    ELSE PyList([i \in 1..reply.n |-> [pmid |-> i]])

\* extract_grade_from_text (ai_analyzer.py:135-146) and its keywords; a
\* Cyrillic letter is written as its Latin transliteration followed by ~
K_high == <<"h", "i", "g", "h">>
K_vysokiy == <<"v~", "y~", "s~", "o~", "k~", "i~", "j~">>
K_moderate == <<"m", "o", "d", "e", "r", "a", "t", "e">>
K_umerennyy == <<"u~", "m~", "e~", "r~", "e~", "n~", "n~", "y~", "j~">>
K_very_low == <<"v", "e", "r", "y", " ", "l", "o", "w">>
K_ochen_nizkiy == <<"o~", "c~", "e~", "n~", "q~", " ", "n~", "i~", "z~", "k~", "i~", "j~">>
K_low == <<"l", "o", "w">>
K_nizkiy == <<"n~", "i~", "z~", "k~", "i~", "j~">>

ExtractGradeFromText(text) ==
    LET text_lower == Lower(text)
    IN  IF Contains(text_lower, K_high) \/ Contains(text_lower, K_vysokiy)
        THEN "High"
        ELSE IF Contains(text_lower, K_moderate) \/ Contains(text_lower, K_umerennyy)
        THEN "Moderate"
        ELSE IF Contains(text_lower, K_very_low) \/ Contains(text_lower, K_ochen_nizkiy)
        THEN "Very Low"
        ELSE IF Contains(text_lower, K_low) \/ Contains(text_lower, K_nizkiy)
        THEN "Low"
        ELSE "Unknown"

\* ai_analyzer.py imports os, json, re, genai and load_dotenv and binds no
\* name logger, yet lines 113, 124 and 128 call logger.info / logger.error
LoggerDefined == FALSE

\* a call of logger.info or logger.error, then the value that follows it
AfterLog(value) == IF LoggerDefined THEN value ELSE PyExc("NameError")

\* lines 129-133
AnalysisError ==
    [t |-> "dict", ud_ai_grade |-> "Error",
     ud_ai_justification |-> "generation error", ai_summary_note |-> "not generated"]

\* lines 107-111: the fields the parsed answer lacks are filled in
FillRequired(analysis) ==
    [k \in DOMAIN analysis \cup {"ud_ai_grade", "ud_ai_justification", "ai_summary_note"} |->
        IF k \in DOMAIN analysis THEN analysis[k] ELSE "undefined"]

\* lines 116-123: the fallback built from the raw text
FallbackAnalysis(text) ==
    [t |-> "dict", ud_ai_grade |-> ExtractGradeFromText(text),
     ud_ai_justification |-> "from text", ai_summary_note |-> "from text"]

\* generate_ai_analysis. Lines 65-68 call .get on each regulatory entry and
\* raise AttributeError, outside the try, for one that is not a dict. Inside
\* the try (88-125) the parsed path ends at logger.info (113) and the
\* fallback path at logger.info (124); what they raise, like a failure of
\* the request, reaches the handler (127), which starts with logger.error
\* (128); an exception raised there leaves the function.
GenerateAiAnalysis(full_drug_data, reply) ==
    LET checks == full_drug_data.regulatory_checks.regulatory_checks
        attempt ==
            IF reply.kind = "raise" THEN PyExc("LlmError")
            ELSE IF reply.json # PyAbsent THEN AfterLog(FillRequired(reply.json))
            ELSE AfterLog(FallbackAnalysis(reply.text))
    IN  IF \E k \in DOMAIN checks : checks[k].t # "dict"
        THEN PyExc("AttributeError")
        ELSE IF IsExc(attempt) THEN AfterLog(AnalysisError)
        ELSE attempt

\* what the model answers: JSON with all fields, JSON lacking fields, text
AiJsonFull ==
    [t |-> "dict", ud_ai_grade |-> "Low", ud_ai_justification |-> "j",
     ai_summary_note |-> "n"]
AiJsonPartial == [t |-> "dict", ud_ai_grade |-> "High"]
AiReplies ==
    {LlmError, LlmReply(T_unclear, PyAbsent), LlmReply(K_very_low, PyAbsent),
     LlmReply(<<"{", "}">>, AiJsonFull), LlmReply(<<"{", "}">>, AiJsonPartial)}

----------------------------------------------------------------------------
(* main_pipeline.py: process_single_drug *)

Mention(name, inn, dosage) ==
    [t |-> "dict", drug_name_source |-> name, inn_name |-> inn,
     dosage_source |-> dosage]

\* dict.get(key, default)
DictGet(d, key, default) == IF d[key] = PyAbsent THEN default ELSE d[key]

RegPlaceholder ==
    [t |-> "dict", regulatory_checks |-> EmptyDict, dosage_check |-> EmptyDict]
AiUnknown == [t |-> "dict", ud_ai_grade |-> "Unknown"]
AiError == [t |-> "dict", ud_ai_grade |-> "Error"]

DrugAnalysis(source_data, normalization, regulatory, articles, ai) ==
    [t |-> "dict", source_data |-> source_data, normalization |-> normalization,
     regulatory_checks |-> regulatory, pubmed_articles |-> articles,
     ai_analysis |-> ai]

\* a process_single_drug coroutine
NewCoroutine ==
    [pc |-> "start", normalization |-> Unset, regulatory |-> Unset,
     pubmed |-> Unset, ret |-> Unset,
     reg_calls |-> 0, pub_calls |-> 0, ai_calls |-> 0]

\* line 86, for a dict
SourceName(drug_info) ==
    IF drug_info.t = "dict"
    THEN DictGet(drug_info, "drug_name_source", PyNone)
    ELSE PyNone

\* lines 95-108: the normalization try block
NormalizationStep(drug_info, rxnav, llm) ==
    LET source_name == SourceName(drug_info)
        existing_inn == DictGet(drug_info, "inn_name", PyStr(S_empty))
    IN  IF Truthy(existing_inn) /\ Lower(existing_inn.s) \notin InnSentinels
        THEN \* line 99: drug_normalizer has no normalize_drug_with_existing_inn;
             \* the AttributeError is caught at line 105
             NormalizationError
        ELSE NormalizeDrug(source_name, rxnav, llm)

\* fault injection: the partial entry without its ai_analysis slot
PartialResult_m(drug_info, normalization_result) ==
    [t |-> "dict", source_data |-> drug_info, normalization |-> normalization_result,
     regulatory_checks |-> RegPlaceholder, pubmed_articles |-> PyList(<<>>),
     ai_analysis |-> PyNone]

\* lines 112-122
PartialResult(drug_info, normalization_result) ==
    DrugAnalysis(drug_info, normalization_result, RegPlaceholder, PyList(<<>>),
                 AiUnknown)

\* fault injection: only a missing name is skipped, an empty one is processed
NoSourceName_m(drug_info) == SourceName(drug_info) = PyNone

\* line 89: the mention has no usable source name
NoSourceName(drug_info) == ~Truthy(SourceName(drug_info))

\* fault injection: a drug without INN is skipped instead of reported
DrugStart_m(c, drug_info, rxnav, llm) ==
    IF drug_info.t # "dict"
    THEN [c EXCEPT !.pc = "done", !.ret = PyExc("AttributeError")]
    ELSE IF ~Truthy(SourceName(drug_info))
    THEN [c EXCEPT !.pc = "done", !.ret = PyNone]
    ELSE LET n == NormalizationStep(drug_info, rxnav, llm)
         IN  IF ~Truthy(n.inn_name)
             THEN [c EXCEPT !.pc = "done", !.normalization = n, !.ret = PyNone]
             ELSE [c EXCEPT !.pc = "enriching", !.normalization = n,
                            !.regulatory = Pending, !.pubmed = Pending,
                            !.reg_calls = 1, !.pub_calls = 1]

\* line 110
NoInn(normalization_result) == ~Truthy(normalization_result.inn_name)

\* lines 86-148, up to the await of the two enrichment tasks
DrugStart(c, drug_info, rxnav, llm) ==
    IF drug_info.t # "dict"
    THEN [c EXCEPT !.pc = "done", !.ret = PyExc("AttributeError")]   \* line 86
    ELSE IF NoSourceName(drug_info)
    THEN [c EXCEPT !.pc = "done", !.ret = PyNone]                    \* line 91
    ELSE LET n == NormalizationStep(drug_info, rxnav, llm)
         IN  IF NoInn(n)
             THEN [c EXCEPT !.pc = "done", !.normalization = n,
                            !.ret = PartialResult(drug_info, n)]
             ELSE [c EXCEPT !.pc = "enriching", !.normalization = n,
                            !.regulatory = Pending, !.pubmed = Pending,
                            !.reg_calls = 1, !.pub_calls = 1]

\* fault injection: gather without return_exceptions, so that one failure
\* reaches the handler of line 164 and both slots become placeholders
EnrichJoin_m(c) ==
    LET failed == IsExc(c.regulatory) \/ IsExc(c.pubmed)
    IN  [c EXCEPT !.pc = "synthesizing",
                  !.regulatory = IF failed THEN RegPlaceholder ELSE c.regulatory,
                  !.pubmed = IF failed THEN PyList(<<>>) ELSE c.pubmed,
                  !.ai_calls = 1]

\* lines 156-175: gather returned; exceptions become placeholders
EnrichJoin(c) ==
    [c EXCEPT !.pc = "synthesizing",
              !.regulatory = IF IsExc(c.regulatory) THEN RegPlaceholder
                             ELSE c.regulatory,
              !.pubmed = IF IsExc(c.pubmed) THEN PyList(<<>>) ELSE c.pubmed,
              !.ai_calls = 1]

\* fault injection: generate_ai_analysis is awaited outside a try block
Synthesize_m(c, drug_info, reply) ==
    LET full_drug_data == [t |-> "dict", source_data |-> drug_info,
                           normalization |-> c.normalization,
                           regulatory_checks |-> c.regulatory,
                           pubmed_articles |-> c.pubmed]
        analysis == GenerateAiAnalysis(full_drug_data, reply)
    IN  [c EXCEPT !.pc = "done",
                  !.ret = IF IsExc(analysis) THEN analysis
                          ELSE DrugAnalysis(drug_info, c.normalization, c.regulatory,
                                            c.pubmed, analysis)]

\* lines 177-192
Synthesize(c, drug_info, reply) ==
    LET full_drug_data == [t |-> "dict", source_data |-> drug_info,
                           normalization |-> c.normalization,
                           regulatory_checks |-> c.regulatory,
                           pubmed_articles |-> c.pubmed]
        analysis == GenerateAiAnalysis(full_drug_data, reply)
        final_analysis == IF IsExc(analysis) THEN AiError ELSE analysis
    IN  [c EXCEPT !.pc = "done",
                  !.ret = DrugAnalysis(drug_info, c.normalization, c.regulatory,
                                       c.pubmed, final_analysis)]

----------------------------------------------------------------------------
(* main_pipeline.py: run_analysis_pipeline *)

\* a .docx file: whether python-docx can open it, the texts of its
\* paragraphs and of its table cells in document order
Doc(loads, paragraphs, cells) ==
    [loads |-> loads, paragraphs |-> paragraphs, cells |-> cells]

Documents ==
    {Doc(FALSE, <<>>, <<>>),
     Doc(TRUE, <<>>, <<>>),
     Doc(TRUE, <<S_empty, S_blank>>, <<S_blank>>),
     Doc(TRUE, <<S_blank, S_text>>, <<S_empty>>),
     Doc(TRUE, <<>>, <<S_text>>)}

NonBlank(s) == Len(Strip(s)) > 0

\* lines 212-226
ExtractText(doc) ==
    Join(<<"\n">>, SelectSeq(doc.paragraphs, NonBlank) \o SelectSeq(doc.cells, NonBlank))

\* fault injection: no text counts as empty
IsEmptyDocument_m(text) == FALSE

\* line 229
IsEmptyDocument(text) == Len(Strip(text)) = 0

SummaryFailed == PyStr(<<"summary", " ", "failed">>)
SummaryEmptyText == PyStr(<<"text", " ", "empty">>)
SummaryReplies == {LlmError, LlmText(S_text)}

\* generate_document_summary
GenerateDocumentSummary(text, reply) ==
    IF Len(text) = 0 THEN SummaryEmptyText
    ELSE IF reply.kind = "raise" THEN SummaryFailed
    ELSE PyStr(Strip(reply.text))

\* the items an extraction can return: a usable name, an
\* empty name, a blank name, the sentinel name with a sentinel INN guess, a
\* name with an INN guess, and an item that is not a dict
Mentions ==
    {Mention(PyStr(S_aspirin), PyAbsent, PyStr(S_dosage)),
     Mention(PyStr(S_empty), PyAbsent, PyStr(S_empty)),
     Mention(PyStr(S_blank), PyAbsent, PyStr(S_empty)),
     Mention(PyStr(S_unknown), PyStr(S_Unknown), PyStr(S_empty)),
     Mention(PyStr(S_aspirin), PyStr(S_aspirin), PyStr(S_dosage)),
     PyStr(S_aspirin)}

MentionLists == UNION {[1..k -> Mentions] : k \in 0..MaxDrugs}

LlmDrugs(list) == [kind |-> "drugs", drugs |-> list]
ExtractionReplies == {LlmError} \cup {LlmDrugs(l) : l \in MentionLists}

\* protocol_parser.extract_drugs_from_text: the parsed list, [] on any failure
ExtractDrugsFromText(text, reply) ==
    IF Len(Strip(text)) = 0 THEN PyList(<<>>)
    ELSE IF reply.kind = "raise" THEN PyList(<<>>)
    ELSE PyList(reply.drugs)

ErrorResult(kind) == [t |-> "error", error |-> kind]

\* lines 201-237
LoadDocument ==
    /\ pc = "start"
    /\ IF ~document.loads
       THEN /\ result' = ErrorResult("load")
            /\ pc' = "done"
            /\ UNCHANGED <<full_text, summary_task, extraction_task>>
       ELSE LET text == ExtractText(document)
            IN  /\ full_text' = text
                /\ IF IsEmptyDocument(text)
                   THEN /\ result' = ErrorResult("empty")
                        /\ pc' = "done"
                        /\ UNCHANGED <<summary_task, extraction_task>>
                   ELSE /\ pc' = "gather_doc"
                        /\ summary_task' = Pending
                        /\ extraction_task' = Pending
                        /\ result' = result
    /\ UNCHANGED <<document, document_summary, extracted_drugs, drugs, completed,
                   llm_calls>>
    /\ UNCHANGED <<regVars, rateVars, litVars, fnVars, hangVars>>

\* the summary coroutine finishes
SummaryDone ==
    /\ pc = "gather_doc"
    /\ summary_task = Pending
    /\ \E reply \in SummaryReplies :
          /\ summary_task' = GenerateDocumentSummary(full_text, reply)
          /\ llm_calls' = IF Len(full_text) = 0 THEN llm_calls
                          ELSE [llm_calls EXCEPT
                                   !.summary = @ + 1,
                                   !.failed = IF reply.kind = "raise"
                                              THEN @ \cup {"summary"} ELSE @]
    /\ UNCHANGED <<pc, document, full_text, extraction_task, document_summary,
                   extracted_drugs, drugs, completed, result>>
    /\ UNCHANGED <<regVars, rateVars, litVars, fnVars, hangVars>>

\* the extraction coroutine finishes
ExtractionDone ==
    /\ pc = "gather_doc"
    /\ extraction_task = Pending
    /\ \E reply \in ExtractionReplies :
          /\ extraction_task' = ExtractDrugsFromText(full_text, reply)
          /\ llm_calls' = IF Len(Strip(full_text)) = 0 THEN llm_calls
                          ELSE [llm_calls EXCEPT
                                   !.extraction = @ + 1,
                                   !.failed = IF reply.kind = "raise"
                                              THEN @ \cup {"extraction"} ELSE @]
    /\ UNCHANGED <<pc, document, full_text, summary_task, document_summary,
                   extracted_drugs, drugs, completed, result>>
    /\ UNCHANGED <<regVars, rateVars, litVars, fnVars, hangVars>>

\* fault injection: a document without drugs is reported as an error
NoDrugsResult_m(summary) == ErrorResult("no drugs")

\* lines 261-267
NoDrugsResult(summary) ==
    [t |-> "ok", document_summary |-> summary, analysis_results |-> <<>>,
     message |-> "no drugs"]

\* lines 269-272: the loop that logs the mentions calls drug.get on each of
\* them, outside every try block
LogsMentions(found) == \A i \in 1..Len(found) : found[i].t = "dict"

\* fault injection: the two coroutines are awaited one after the other in
\* one try block, so that a failed summary also loses the drugs
GatherDocument_m ==
    /\ pc = "gather_doc"
    /\ summary_task # Pending
    /\ extraction_task # Pending
    /\ LET summary == summary_task
           found == IF "summary" \in llm_calls.failed THEN <<>>
                    ELSE extraction_task.items
       IN  /\ document_summary' = summary
           /\ extracted_drugs' = found
           /\ IF Len(found) = 0
              THEN /\ result' = NoDrugsResult(summary)
                   /\ pc' = "done"
                   /\ drugs' = drugs
              ELSE IF ~LogsMentions(found)
              THEN /\ result' = PyExc("AttributeError")
                   /\ pc' = "done"
                   /\ drugs' = drugs
              ELSE /\ drugs' = [i \in 1..Len(found) |-> NewCoroutine]
                   /\ pc' = "fanout"
                   /\ result' = result
    /\ UNCHANGED <<document, full_text, summary_task, extraction_task, completed,
                   llm_calls>>
    /\ UNCHANGED <<regVars, rateVars, litVars, fnVars, hangVars>>

\* lines 240-277: gather returned; no drugs ends the run, a mention
\* without .get makes the logging loop raise AttributeError to the caller,
\* otherwise one coroutine per mention is created
GatherDocument ==
    /\ pc = "gather_doc"
    /\ summary_task # Pending
    /\ extraction_task # Pending
    /\ LET summary == IF IsExc(summary_task) THEN SummaryFailed ELSE summary_task
           found == IF IsExc(extraction_task) THEN <<>> ELSE extraction_task.items
       IN  /\ document_summary' = summary
           /\ extracted_drugs' = found
           /\ IF Len(found) = 0
              THEN /\ result' = NoDrugsResult(summary)
                   /\ pc' = "done"
                   /\ drugs' = drugs
              ELSE IF ~LogsMentions(found)
              THEN /\ result' = PyExc("AttributeError")
                   /\ pc' = "done"
                   /\ drugs' = drugs
              ELSE /\ drugs' = [i \in 1..Len(found) |-> NewCoroutine]
                   /\ pc' = "fanout"
                   /\ result' = result
    /\ UNCHANGED <<document, full_text, summary_task, extraction_task, completed,
                   llm_calls>>
    /\ UNCHANGED <<regVars, rateVars, litVars, fnVars, hangVars>>

\* the regulatory environments a drug of the fan-out can meet
PipelineReplies ==
    [FDA |-> FdaResults(S_dosage), EMA |-> HttpError,
     BNF |-> LlmReply(T_approved, [t |-> "dict", status |-> "Approved", note |-> "ok"]),
     WHO_EML |-> LlmReply(T_not_approved, PyAbsent)]
PipelineRegEnvs ==
    {[client_ok |-> ok, replies |-> PipelineReplies,
      dosage_reply |-> LlmReply(T_within,
                                [t |-> "dict", comparison_result |-> "within_range"])]
         : ok \in BOOLEAN}

Finish(i, c) ==
    /\ drugs' = [drugs EXCEPT ![i] = c]
    /\ completed' = IF c.pc = "done" THEN Append(completed, i) ELSE completed

\* process_single_drug runs to its first suspension
DrugNormalize(i) ==
    /\ pc = "fanout"
    /\ drugs[i].pc = "start"
    /\ \E rxnav \in RxNavReplies(SourceName(extracted_drugs[i])),
          llm \in NormalizerLlmReplies :
          Finish(i, DrugStart(drugs[i], extracted_drugs[i], rxnav, llm))
    /\ UNCHANGED <<pc, document, full_text, summary_task, extraction_task,
                   document_summary, extracted_drugs, llm_calls, result>>
    /\ UNCHANGED <<regVars, rateVars, litVars, fnVars, hangVars>>

\* check_all_regulators finishes for drug i
RegulatoryDone(i) ==
    /\ pc = "fanout"
    /\ drugs[i].pc = "enriching"
    /\ drugs[i].regulatory = Pending
    /\ \E env \in PipelineRegEnvs :
          drugs' = [drugs EXCEPT ![i].regulatory =
                       CheckAllRegulators("services", drugs[i].normalization.inn_name,
                                          DictGet(extracted_drugs[i], "dosage_source",
                                                  PyStr(S_empty)),
                                          env)]
    /\ UNCHANGED <<pc, document, full_text, summary_task, extraction_task,
                   document_summary, extracted_drugs, completed, llm_calls, result>>
    /\ UNCHANGED <<regVars, rateVars, litVars, fnVars, hangVars>>

\* pubmed.search_articles finishes for drug i
PubmedDone(i) ==
    /\ pc = "fanout"
    /\ drugs[i].pc = "enriching"
    /\ drugs[i].pubmed = Pending
    /\ \E reply \in PubmedReplies :
          drugs' = [drugs EXCEPT ![i].pubmed =
                       SearchArticles(drugs[i].normalization.inn_name,
                                      extracted_drugs[i].drug_name_source, reply)]
    /\ UNCHANGED <<pc, document, full_text, summary_task, extraction_task,
                   document_summary, extracted_drugs, completed, llm_calls, result>>
    /\ UNCHANGED <<regVars, rateVars, litVars, fnVars, hangVars>>

\* fault injection: the synthesizer is called as soon as the regulatory
\* check is over
DrugEnrichJoin_m(i) ==
    /\ pc = "fanout"
    /\ drugs[i].pc = "enriching"
    /\ drugs[i].regulatory # Pending
    /\ drugs' = [drugs EXCEPT ![i] = EnrichJoin(drugs[i])]
    /\ UNCHANGED <<pc, document, full_text, summary_task, extraction_task,
                   document_summary, extracted_drugs, completed, llm_calls, result>>
    /\ UNCHANGED <<regVars, rateVars, litVars, fnVars, hangVars>>

\* both enrichment tasks are over: the inner gather returns and the
\* synthesizer is called
DrugEnrichJoin(i) ==
    /\ pc = "fanout"
    /\ drugs[i].pc = "enriching"
    /\ drugs[i].regulatory # Pending
    /\ drugs[i].pubmed # Pending
    /\ drugs' = [drugs EXCEPT ![i] = EnrichJoin(drugs[i])]
    /\ UNCHANGED <<pc, document, full_text, summary_task, extraction_task,
                   document_summary, extracted_drugs, completed, llm_calls, result>>
    /\ UNCHANGED <<regVars, rateVars, litVars, fnVars, hangVars>>

\* generate_ai_analysis finishes for drug i
DrugSynthesize(i) ==
    /\ pc = "fanout"
    /\ drugs[i].pc = "synthesizing"
    /\ \E reply \in AiReplies :
          Finish(i, Synthesize(drugs[i], extracted_drugs[i], reply))
    /\ UNCHANGED <<pc, document, full_text, summary_task, extraction_task,
                   document_summary, extracted_drugs, llm_calls, result>>
    /\ UNCHANGED <<regVars, rateVars, litVars, fnVars, hangVars>>

\* fault injection: the results in the order the coroutines finished
GatherResults_m(ds, order) == [j \in 1..Len(order) |-> ds[order[j]].ret]

\* line 277: asyncio.gather returns the results by position of the awaitable
GatherResults(ds, order) == [i \in 1..Len(ds) |-> ds[i].ret]

\* lines 283-286: neither an exception nor None
IsValidResult(r) == ~IsExc(r) /\ r # PyNone

\* lines 280-294
PipelineReturn(summary, analysis_results) ==
    [t |-> "ok", document_summary |-> summary,
     analysis_results |-> SelectSeq(analysis_results, IsValidResult)]

\* every coroutine of the fan-out is over: lines 277-294
Collect ==
    /\ pc = "fanout"
    /\ \A i \in 1..Len(drugs) : drugs[i].pc = "done"
    /\ result' = PipelineReturn(document_summary, GatherResults(drugs, completed))
    /\ pc' = "done"
    /\ UNCHANGED <<document, full_text, summary_task, extraction_task,
                   document_summary, extracted_drugs, drugs, completed, llm_calls>>
    /\ UNCHANGED <<regVars, rateVars, litVars, fnVars, hangVars>>

----------------------------------------------------------------------------
(* PubMedClient._rate_limit (services/pubmed_client.py:45-61, the same     *)
(* code at backend/services/pubmed_client.py:46-62).  The clock counts     *)
(* units of req_interval = 1.0 / reqs_per_second, so one second is         *)
(* reqs_per_second units and the sleep at line 59 lasts one unit.          *)

ReqsPerSecond == 9      \* __init__(self, reqs_per_second=9)
Ceiling == 9            \* the literal of line 57
SleepTicks == 1         \* wait_time = self.req_interval
OneSecond == reqs_per_second

\* the clients the constructor can build: from MinRate requests per second
\* to one more than the default
Configurations == MinRate..(ReqsPerSecond + 1)

Callers == 1..MaxCallers

\* lines 50-54: drop from the left while the head is older than one second
RECURSIVE DropExpired(_, _)
DropExpired(timestamps, current_time) ==
    IF timestamps # <<>> /\ current_time - Head(timestamps) > OneSecond
    THEN DropExpired(Tail(timestamps), current_time)
    ELSE timestamps

CallerIdle == [pc |-> "idle", current_time |-> 0, wake |-> 0]

\* lines 47-61 up to the first suspension: read the clock, prune the deque,
\* then either sleep (line 59) or append at once (line 61)
RateLimitEnter(c) ==
    /\ callers[c].pc = "idle"
    /\ Len(granted) + Cardinality({d \in Callers : callers[d].pc = "sleeping"}) < MaxCalls
    /\ LET current_time == now
           pruned == DropExpired(request_timestamps, current_time)
       IN  IF Len(pruned) >= Ceiling
           THEN /\ request_timestamps' = pruned
                /\ callers' = [callers EXCEPT ![c] =
                                  [pc |-> "sleeping", current_time |-> current_time,
                                   wake |-> now + SleepTicks]]
                /\ sleeps' = sleeps + 1
                /\ granted' = granted
           ELSE /\ request_timestamps' = Append(pruned, current_time)
                /\ granted' = Append(granted, now)
                /\ UNCHANGED <<callers, sleeps>>
    /\ UNCHANGED <<now, reqs_per_second>>
    /\ UNCHANGED <<pipeVars, regVars, litVars, fnVars, hangVars>>

\* line 59 returns, line 61 appends the reading taken at line 47
RateLimitWake(c) ==
    /\ callers[c].pc = "sleeping"
    /\ now >= callers[c].wake
    /\ request_timestamps' = Append(request_timestamps, callers[c].current_time)
    /\ granted' = Append(granted, now)
    /\ callers' = [callers EXCEPT ![c] = CallerIdle]
    /\ UNCHANGED <<now, reqs_per_second, sleeps>>
    /\ UNCHANGED <<pipeVars, regVars, litVars, fnVars, hangVars>>

\* the clock advances while a coroutine sleeps; the sleeper is woken when
\* its sleep is over, so the clock does not run past a pending wake-up
Tick ==
    /\ now < MaxClock
    /\ \E c \in Callers : callers[c].pc = "sleeping"
    /\ \A c \in Callers : callers[c].pc = "sleeping" => now < callers[c].wake
    /\ now' = now + 1
    /\ UNCHANGED <<reqs_per_second, request_timestamps, callers, granted, sleeps>>
    /\ UNCHANGED <<pipeVars, regVars, litVars, fnVars, hangVars>>

\* a quiet period between two bursts of calls: nobody is inside
\* _rate_limit and more than one second passes
Pause ==
    /\ now + OneSecond + 1 <= MaxClock
    /\ \A c \in Callers : callers[c].pc = "idle"
    /\ now' = now + OneSecond + 1
    /\ UNCHANGED <<reqs_per_second, request_timestamps, callers, granted, sleeps>>
    /\ UNCHANGED <<pipeVars, regVars, litVars, fnVars, hangVars>>

----------------------------------------------------------------------------
(* The literature client: PubMedClient.search_articles                    *)
(* (services/pubmed_client.py:90-228, "services") and                      *)
(* PubMedClient.search_articles_for_drug                                   *)
(* (backend/services/pubmed_client.py:135-275, "backend"), with the redis  *)
(* cache around them.  The waits in _rate_limit only delay the requests    *)
(* and are left to SpecRate.                                               *)

\* the keys of an article dict, in insertion order
ArticleKeys == <<"pmid", "title", "authors">>

\* fault injection: strings are written without escaping
JsonEscape_m(s) == s

\* json.dumps escapes the quote and the backslash inside a string
RECURSIVE JsonEscape(_)
JsonEscape(s) ==
    IF s = <<>> THEN <<>>
    ELSE (IF Head(s) \in {"\"", "\\"} THEN <<"\\", Head(s)>> ELSE <<Head(s)>>)
         \o JsonEscape(Tail(s))

RECURSIVE JsonDumps(_)
RECURSIVE JsonDumpsItems(_)
RECURSIVE JsonDumpsMembers(_, _)
JsonDumpsItems(items) ==
    IF items = <<>> THEN <<>>
    ELSE JsonDumps(Head(items))
         \o (IF Tail(items) = <<>> THEN <<>> ELSE <<",">> \o JsonDumpsItems(Tail(items)))

JsonDumpsMembers(d, keys) ==
    IF keys = <<>> THEN <<>>
    ELSE <<Head(keys), ":">> \o JsonDumps(d[Head(keys)])
         \o (IF Tail(keys) = <<>> THEN <<>> ELSE <<",">> \o JsonDumpsMembers(d, Tail(keys)))

JsonDumps(v) ==
    CASE v.t = "None" -> <<"n", "u", "l", "l">>
      [] v.t = "str" -> <<"\"">> \o JsonEscape(v.s) \o <<"\"">>
      [] v.t = "list" -> <<"[">> \o JsonDumpsItems(v.items) \o <<"]">>
      [] v.t = "dict" ->
            <<"{">>
            \o JsonDumpsMembers(v, SelectSeq(ArticleKeys, LAMBDA k : k \in DOMAIN v))
            \o <<"}">>

ParseFail == [ok |-> FALSE]
ParseOk(val, rest) == [ok |-> TRUE, val |-> val, rest |-> rest]

RECURSIVE ParseString(_, _)
ParseString(s, acc) ==
    IF s = <<>> THEN ParseFail
    ELSE IF Head(s) = "\"" THEN ParseOk(PyStr(acc), Tail(s))
    ELSE IF Head(s) = "\\"
    THEN IF Len(s) < 2 THEN ParseFail
         ELSE ParseString(SubSeq(s, 3, Len(s)), Append(acc, s[2]))
    ELSE ParseString(Tail(s), Append(acc, Head(s)))

RECURSIVE ParseValue(_)
RECURSIVE ParseItems(_, _)
RECURSIVE ParseMembers(_, _)
ParseItems(s, acc) ==
    LET r == ParseValue(s)
    IN  IF ~r.ok \/ r.rest = <<>> THEN ParseFail
        ELSE IF Head(r.rest) = "]" THEN ParseOk(PyList(Append(acc, r.val)), Tail(r.rest))
        ELSE IF Head(r.rest) = "," THEN ParseItems(Tail(r.rest), Append(acc, r.val))
        ELSE ParseFail

ParseMembers(s, acc) ==
    IF Len(s) < 3 \/ s[2] # ":" THEN ParseFail
    ELSE LET r == ParseValue(SubSeq(s, 3, Len(s)))
             d == (s[1] :> r.val) @@ acc
         IN  IF ~r.ok \/ r.rest = <<>> THEN ParseFail
             ELSE IF Head(r.rest) = "}" THEN ParseOk(d, Tail(r.rest))
             ELSE IF Head(r.rest) = "," THEN ParseMembers(Tail(r.rest), d)
             ELSE ParseFail

ParseValue(s) ==
    IF s = <<>> THEN ParseFail
    ELSE IF Len(s) >= 4 /\ SubSeq(s, 1, 4) = <<"n", "u", "l", "l">>
    THEN ParseOk(PyNone, SubSeq(s, 5, Len(s)))
    ELSE IF Head(s) = "\"" THEN ParseString(Tail(s), <<>>)
    ELSE IF Head(s) = "["
    THEN IF Len(s) >= 2 /\ s[2] = "]" THEN ParseOk(PyList(<<>>), SubSeq(s, 3, Len(s)))
         ELSE ParseItems(Tail(s), <<>>)
    ELSE IF Head(s) = "{"
    THEN IF Len(s) >= 2 /\ s[2] = "}" THEN ParseOk([t |-> "dict"], SubSeq(s, 3, Len(s)))
         ELSE ParseMembers(Tail(s), [t |-> "dict"])
    ELSE ParseFail

JsonLoads(s) ==
    LET r == ParseValue(s)
    IN  IF r.ok /\ r.rest = <<>> THEN r.val ELSE PyExc("JSONDecodeError")

\* what redis holds and returns: bytes
Bytes(s) == [t |-> "bytes", s |-> s]

S_pain == <<"p", "a", "i", "n">>
S_quoted == <<"a", "\"", "b">>
NoTitle == PyStr(<<"No title available">>)
EtAl == <<" ", "e", "t", " ", "a", "l", ".">>

\* a search term, by the template it is built from and what fills it
Query(kind, inn_name, disease) == [kind |-> kind, inn |-> inn_name, disease |-> disease]

\* services: search_term (125) and, with a disease, broader_search (162),
\* which is search_term with an empty context_query; backend: the list
\* search_strategies (147-181)
Strategies(variant, inn_name, main_disease) ==
    IF variant = "services"
    THEN IF main_disease # <<>>
         THEN <<Query("study", inn_name, main_disease), Query("study", inn_name, <<>>)>>
         ELSE <<Query("study", inn_name, <<>>)>>
    ELSE (IF main_disease # <<>>
          THEN <<Query("high_quality", inn_name, main_disease)>>
          ELSE <<>>)
         \o <<Query("clinical", inn_name, <<>>), Query("general", inn_name, <<>>)>>

\* services line 127 (one key, of search_term), backend line 185 (a key per
\* strategy); max_results keeps its default
CacheKey(variant, strategies, i) ==
    IF variant = "services"
    THEN [prefix |-> "pubmed_v2", query |-> strategies[1]]
    ELSE [prefix |-> "pubmed_v3", query |-> strategies[i]]

\* lines 94-96 (services) and 139-141 (backend)
InvalidInn(inn_name) == ~Truthy(inn_name) \/ Lower(inn_name.s) \in InnSentinels

\* rec.get(key, default)
RecGet(rec, key, default) == IF key \in DOMAIN rec THEN rec[key] ELSE default

\* one article dict: services lines 194-213, backend lines 230-255 (the
\* backend joins the first three authors and marks the rest)
ParseRecord(variant, rec) ==
    LET authors == RecGet(rec, "AU", PyList(<<>>)).items
        names == [i \in 1..Len(authors) |-> authors[i].s]
        first3 == SubSeq(names, 1, IF Len(names) < 3 THEN Len(names) ELSE 3)
    IN  [t |-> "dict",
         pmid |-> RecGet(rec, "PMID", PyNone),
         title |-> RecGet(rec, "TI", NoTitle),
         authors |-> IF variant = "services"
                     THEN PyList(authors)
                     ELSE PyStr(Join(<<",", " ">>, first3)
                                \o (IF Len(names) > 3 THEN EtAl ELSE <<>>))]

\* what handle.read() gives after efetch: Biopython returns the body as
\* text; a test double returns parsed records
FetchRaise == [kind |-> "raise"]
FetchText(s) == [kind |-> "text", text |-> s]
FetchRecords(recs) == [kind |-> "records", records |-> recs]

\* the loop over records: iterating a non-empty str yields one-character
\* strings, and rec.get raises AttributeError on the first of them
ParseArticles(variant, reply) ==
    CASE reply.kind = "raise" -> PyExc("HTTPError")
      [] reply.kind = "text" ->
            IF reply.text = <<>> THEN PyList(<<>>) ELSE PyExc("AttributeError")
      [] reply.kind = "records" ->
            PyList([i \in 1..Len(reply.records) |-> ParseRecord(variant, reply.records[i])])

\* fault injection: a failed cache read is handed to the caller
CacheRead_m(cached) ==
    IF IsExc(cached) THEN [hit |-> TRUE, val |-> cached]
    ELSE IF cached.t = "None" \/ cached.s = <<>> THEN [hit |-> FALSE]
    ELSE [hit |-> TRUE, val |-> JsonLoads(cached.s)]

\* the cache check: redis_client.get raised, returned nothing, or returned
\* bytes that json.loads accepts or rejects; every exception is a miss
CacheRead(cached) ==
    IF IsExc(cached) THEN [hit |-> FALSE]
    ELSE IF cached.t = "None" \/ cached.s = <<>> THEN [hit |-> FALSE]
    ELSE LET loaded == JsonLoads(cached.s)
         IN  IF IsExc(loaded) THEN [hit |-> FALSE] ELSE [hit |-> TRUE, val |-> loaded]

Rec1 == [t |-> "dict", PMID |-> PyStr(<<"1">>), TI |-> PyStr(S_quoted),
         AU |-> PyList(<<PyStr(<<"A">>), PyStr(<<"B">>), PyStr(<<"C">>), PyStr(<<"D">>)>>)]
Rec2 == [t |-> "dict"]

LitRequests ==
    {[inn_name |-> PyStr(S_aspirin), main_disease |-> d] : d \in {<<>>, S_pain}}
    \cup {[inn_name |-> PyStr(S_unknown), main_disease |-> <<>>]}
RedisGetReplies == {"raise", "value", "garbage"}
RedisSetReplies == {"ok", "raise"}
Garbage == Bytes(<<"[", "{", "pmid">>)
EsearchReplies == {[kind |-> "raise"], [kind |-> "ids", n |-> 0], [kind |-> "ids", n |-> 2]}
EfetchReplies ==
    {FetchRaise, FetchText(<<>>), FetchText(<<"P", "M", "I", "D">>),
     FetchRecords(<<Rec1, Rec2>>)}

\* the search returns ret
LitReturn(ret, hit) ==
    /\ lret' = ret
    /\ lpc' = "done"
    /\ ldone' = ldone + 1
    /\ lhits' = IF hit THEN lhits + 1 ELSE 0

LitStrategies == Strategies(lvariant, lreq.inn_name, lreq.main_disease)
LitKey == CacheKey(lvariant, LitStrategies, lstrategy)
LitLog(op, outcome) ==
    Append(lcalls, [op |-> op, strategy |-> lstrategy, outcome |-> outcome])

\* fault injection: efetch is called without awaiting _rate_limit
Acquired_m(site, n) == IF site = "efetch" THEN n ELSE n + 1

\* await self._rate_limit() before the call of site has returned: line 61
\* has recorded one more acquisition
Acquired(site, n) == n + 1

\* a search is called: the guard on the INN, then the first strategy
LitBegin ==
    /\ lpc \in {"start", "done"}
    /\ ldone < MaxSearches
    /\ \E req \in LitRequests :
          /\ lreq' = req
          /\ lcalls' = <<>>
          /\ lacquired' = 0
          /\ lstrategy' = 1
          /\ larticles' = Unset
          /\ IF InvalidInn(req.inn_name)
             THEN LitReturn(PyList(<<>>), FALSE)
             ELSE /\ lpc' = IF lredis THEN "cache_get" ELSE "search"
                  /\ lret' = Unset
                  /\ UNCHANGED <<lhits, ldone>>
    /\ UNCHANGED <<lvariant, lredis, lstore, lwritten>>
    /\ UNCHANGED <<pipeVars, regVars, rateVars, fnVars, hangVars>>

\* fault injection: with the strategies exhausted the search raises
LitNextStrategy_m ==
    IF lstrategy < Len(LitStrategies)
    THEN /\ lstrategy' = lstrategy + 1
         /\ lpc' = IF lredis THEN "cache_get" ELSE "search"
         /\ UNCHANGED <<lret, lhits, ldone>>
    ELSE /\ lstrategy' = lstrategy
         /\ LitReturn(PyExc("SearchFailed"), FALSE)

\* backend lines 184, 270-275: on to the next strategy, or out of the loop
LitNextStrategy ==
    IF lstrategy < Len(LitStrategies)
    THEN /\ lstrategy' = lstrategy + 1
         /\ lpc' = IF lredis THEN "cache_get" ELSE "search"
         /\ UNCHANGED <<lret, lhits, ldone>>
    ELSE /\ lstrategy' = lstrategy
         /\ LitReturn(PyList(<<>>), FALSE)

\* fault injection: a cached list is decoded but the search goes on to
\* esearch as after a miss
LitCacheGet_m ==
    /\ lpc = "cache_get"
    /\ \E reply \in RedisGetReplies :
          LET outcome == IF reply = "value" /\ LitKey \notin DOMAIN lstore
                         THEN "absent" ELSE reply
          IN  lcalls' = LitLog("get", outcome)
    /\ lpc' = "search"
    /\ UNCHANGED <<lvariant, lredis, lstore, lwritten, lreq, lstrategy, larticles,
                   lacquired, lret, lhits, ldone>>
    /\ UNCHANGED <<pipeVars, regVars, rateVars, fnVars, hangVars>>

\* services lines 131-138, backend lines 190-197
LitCacheGet ==
    /\ lpc = "cache_get"
    /\ \E reply \in RedisGetReplies :
          LET cached == CASE reply = "raise" -> PyExc("ConnectionError")
                          [] reply = "garbage" -> Garbage
                          [] reply = "value" ->
                                IF LitKey \in DOMAIN lstore THEN lstore[LitKey] ELSE PyNone
              outcome == IF reply = "value" /\ LitKey \notin DOMAIN lstore
                         THEN "absent" ELSE reply
              read == CacheRead(cached)
          IN  /\ lcalls' = LitLog("get", outcome)
              /\ IF read.hit
                 THEN LitReturn(read.val, TRUE)
                 ELSE /\ lpc' = "search"
                      /\ UNCHANGED <<lret, lhits, ldone>>
    /\ UNCHANGED <<lvariant, lredis, lstore, lwritten, lreq, lstrategy, larticles,
                   lacquired>>
    /\ UNCHANGED <<pipeVars, regVars, rateVars, fnVars, hangVars>>

\* esearch: services lines 142-176 and 226-228, backend lines 199-213 and
\* 267-272
LitSearch ==
    /\ lpc = "search"
    \* _rate_limit: services lines 144 and 164, backend line 201
    /\ lacquired' = Acquired("esearch", lacquired)
    /\ \E reply \in EsearchReplies :
          /\ lcalls' = LitLog("esearch", IF reply.kind = "raise" THEN "raise"
                                         ELSE IF reply.n = 0 THEN "no ids" ELSE "ids")
          /\ IF reply.kind = "ids" /\ reply.n > 0
             THEN /\ lpc' = "fetch"
                  /\ UNCHANGED <<lstrategy, lret, lhits, ldone>>
             ELSE IF lvariant = "backend"
             THEN LitNextStrategy
             ELSE IF reply.kind = "ids" /\ lstrategy < Len(LitStrategies)
             THEN \* line 160: the broader search, without a cache check
                  /\ lstrategy' = lstrategy + 1
                  /\ lpc' = "search"
                  /\ UNCHANGED <<lret, lhits, ldone>>
             ELSE /\ lstrategy' = lstrategy
                  /\ LitReturn(PyList(<<>>), FALSE)
    /\ UNCHANGED <<lvariant, lredis, lstore, lwritten, lreq, larticles>>
    /\ UNCHANGED <<pipeVars, regVars, rateVars, fnVars, hangVars>>

\* efetch and the loop over the records: services lines 181-224 and
\* 226-228, backend lines 217-266 and 270-272
LitFetch ==
    /\ lpc = "fetch"
    \* _rate_limit: services line 181, backend line 217
    /\ lacquired' = Acquired("efetch", lacquired)
    /\ \E reply \in EfetchReplies :
          LET articles == ParseArticles(lvariant, reply)
          IN  /\ lcalls' = LitLog("efetch", IF IsExc(articles) THEN "raise" ELSE "ok")
              /\ IF IsExc(articles)
                 THEN /\ larticles' = larticles
                      /\ IF lvariant = "backend"
                         THEN LitNextStrategy
                         ELSE /\ lstrategy' = lstrategy
                              /\ LitReturn(PyList(<<>>), FALSE)
                 ELSE /\ larticles' = articles
                      /\ lstrategy' = lstrategy
                      /\ IF lredis
                         THEN /\ lpc' = "cache_set"
                              /\ UNCHANGED <<lret, lhits, ldone>>
                         ELSE LitReturn(articles, FALSE)
    /\ UNCHANGED <<lvariant, lredis, lstore, lwritten, lreq>>
    /\ UNCHANGED <<pipeVars, regVars, rateVars, fnVars, hangVars>>

\* services lines 217-224, backend lines 259-266
LitCacheSet ==
    /\ lpc = "cache_set"
    /\ \E reply \in RedisSetReplies :
          /\ lcalls' = LitLog("set", reply)
          /\ IF reply = "ok"
             THEN /\ lstore' = (LitKey :> Bytes(JsonDumps(larticles))) @@ lstore
                  /\ lwritten' = (LitKey :> larticles) @@ lwritten
             ELSE UNCHANGED <<lstore, lwritten>>
          /\ LitReturn(larticles, FALSE)
    /\ UNCHANGED <<lvariant, lredis, lreq, lstrategy, larticles, lacquired>>
    /\ UNCHANGED <<pipeVars, regVars, rateVars, fnVars, hangVars>>

\* ex=86400: a key reaches its time to live and redis drops it
LitExpire ==
    /\ lpc = "done"
    /\ \E key \in DOMAIN lstore :
          /\ lstore' = [k \in DOMAIN lstore \ {key} |-> lstore[k]]
          /\ lwritten' = [k \in DOMAIN lwritten \ {key} |-> lwritten[k]]
    /\ UNCHANGED <<lpc, lvariant, lredis, lreq, lstrategy, larticles, lcalls, lret,
                   lhits, ldone, lacquired>>
    /\ UNCHANGED <<pipeVars, regVars, rateVars, fnVars, hangVars>>

----------------------------------------------------------------------------
(* Functions called on their own (SpecFn)                                  *)

\* raw answers: up to MaxWords of these, separated by blanks
GradeWords ==
    {K_high, K_vysokiy, K_moderate, K_umerennyy, K_very_low, K_ochen_nizkiy,
     K_low, K_nizkiy, <<"V", "e", "r", "y", " ", "L", "o", "w">>, <<"O~", "c~", "e~", "n~", "q~", " ", "N~", "i~", "z~", "k~", "i~", "j~">>, <<"n", "/", "a">>}

RECURSIVE TextsOf(_)
TextsOf(n) ==
    IF n = 0 THEN {<<>>}
    ELSE LET shorter == TextsOf(n - 1)
         IN  shorter \cup {IF t = <<>> THEN w ELSE t \o <<" ">> \o w :
                              t \in shorter, w \in GradeWords}

GradeTexts == TextsOf(MaxWords)

\* full_drug_data as process_single_drug builds it (main_pipeline.py:170-175)
AiInputs ==
    {[t |-> "dict", source_data |-> Mention(PyStr(S_aspirin), PyAbsent, PyAbsent),
      normalization |-> [t |-> "dict", inn_name |-> PyStr(S_aspirin)],
      regulatory_checks |-> reg, pubmed_articles |-> PyList(<<>>)] :
        reg \in {RegPlaceholder,
                 RegulatoryReturn([k \in RegulatorSet |-> StatusDict("Not Found")],
                                  DosageMismatch),
                 RegulatoryReturn([k \in RegulatorSet |->
                                      IF k = "BNF" THEN PyList(<<>>)
                                      ELSE StatusDict("Not Found")],
                                  DosageMismatch)}}

\* the names normalize_drug is called with: empty, blank, the sentinel, a
\* drug name
NormalizerNames == {PyStr(S_empty), PyStr(S_blank), PyStr(S_unknown), PyStr(S_aspirin)}
S_ok == <<"o", "k">>

\* fault injection: a lookup that fails ends the normalization without the
\* request to the LLM
NormalizeDrugCalls_m(drug_name, rxnav) ==
    IF ~Truthy(drug_name) \/ Len(Strip(drug_name.s)) = 0
    THEN [rxnav |-> 0, llm |-> 0]
    ELSE IF rxnav.kind = "not_found"
    THEN [rxnav |-> 1, llm |-> 1]
    ELSE [rxnav |-> 1, llm |-> 0]

\* normalize_drug (drug_normalizer.py:85-106): the requests it sends.  The
\* RxNav lookup is awaited at line 95 once the guard of line 89 is passed,
\* the LLM at line 101 when the lookup gave no name
NormalizeDrugCalls(drug_name, rxnav) ==
    IF ~Truthy(drug_name) \/ Len(Strip(drug_name.s)) = 0
    THEN [rxnav |-> 0, llm |-> 0]
    ELSE IF Truthy(NormalizeWithRxnav(PyStr(Strip(drug_name.s)), rxnav))
    THEN [rxnav |-> 1, llm |-> 0]
    ELSE [rxnav |-> 1, llm |-> 1]

FnCalls ==
    {[fn |-> "extract_grade_from_text", arg |-> text] : text \in GradeTexts}
    \cup UNION {{[fn |-> "normalize_drug",
                   arg |-> [drug_name |-> n, rxnav |-> r, llm |-> l]] :
                     r \in RxNavReplies(n),
                     l \in NormalizerLlmReplies \cup {LlmText(S_ok)}} :
                 n \in NormalizerNames}
    \cup {[fn |-> "generate_ai_analysis", arg |-> [data |-> d, reply |-> r]] :
             d \in AiInputs, r \in AiReplies}

\* extract_grade_from_text(text) is called and returns
ApplyExtractGrade ==
    /\ fcall.fn = "extract_grade_from_text"
    /\ freturn = Unset
    /\ freturn' = [t |-> "str", grade |-> ExtractGradeFromText(fcall.arg)]
    /\ UNCHANGED fcall
    /\ UNCHANGED <<pipeVars, regVars, rateVars, litVars, hangVars>>

\* normalize_drug(drug_name) is called and returns
ApplyNormalizeDrug ==
    /\ fcall.fn = "normalize_drug"
    /\ freturn = Unset
    /\ freturn' = [t |-> "normalized",
                   result |-> NormalizeDrug(fcall.arg.drug_name, fcall.arg.rxnav,
                                            fcall.arg.llm),
                   calls |-> NormalizeDrugCalls(fcall.arg.drug_name, fcall.arg.rxnav)]
    /\ UNCHANGED fcall
    /\ UNCHANGED <<pipeVars, regVars, rateVars, litVars, hangVars>>

\* generate_ai_analysis(full_drug_data) is called and returns or raises
ApplyGenerateAiAnalysis ==
    /\ fcall.fn = "generate_ai_analysis"
    /\ freturn = Unset
    /\ freturn' = GenerateAiAnalysis(fcall.arg.data, fcall.arg.reply)
    /\ UNCHANGED fcall
    /\ UNCHANGED <<pipeVars, regVars, rateVars, litVars, hangVars>>

----------------------------------------------------------------------------
(* The external requests of one run of run_analysis_pipeline for a         *)
(* document with one drug, and what bounds the wait for each (SpecHang).   *)
(* An answer and a failure both let the caller go on; only a request that  *)
(* never answers and that nothing cuts short holds the run.                *)

\* the stages of the run, in order (main_pipeline.py:240, 95-108, 148,
\* 179, 192)
Stages == <<"document", "normalize", "enrich", "synthesize", "returned">>

\* the call sites of each stage
\*   summary_llm     main_pipeline.py:73
\*   extraction_llm  protocol_parser.py:237
\*   rxnav           drug_normalizer.py:23 and 36
\*   normalizer_llm  drug_normalizer.py:73
\*   fda, ema        regulatory_checker.py:82 and 98
\*   bnf_llm, who_llm  regulatory_checker.py:124
\*   dosage_llm      regulatory_checker.py:171
\*   redis_get, esearch, efetch, redis_set  pubmed_client.py:133, 146, 183, 219
\*   synthesis_llm   ai_analyzer.py:98
StageSites(stage) ==
    CASE stage = "document" -> {"summary_llm", "extraction_llm"}
      [] stage = "normalize" -> {"rxnav", "normalizer_llm"}
      [] stage = "enrich" -> {"fda", "ema", "bnf_llm", "who_llm", "dosage_llm",
                              "redis_get", "esearch", "efetch", "redis_set"}
      [] stage = "synthesize" -> {"synthesis_llm"}
      [] OTHER -> {}

\* the requests that must be over before site is sent: the LLM fallback
\* follows the RxNav lookup, the dosage comparison follows the four checks
\* (regulatory_checker.py:188-196), the steps of a search follow each other
Before(site) ==
    CASE site = "normalizer_llm" -> {"rxnav"}
      [] site = "dosage_llm" -> {"fda", "ema", "bnf_llm", "who_llm"}
      [] site = "esearch" -> {"redis_get"}
      [] site = "efetch" -> {"esearch"}
      [] site = "redis_set" -> {"efetch"}
      [] OTHER -> {}

\* what bounds the wait at a call site: "explicit" is a timeout argument
\* at the call (drug_normalizer.py:23, 36: timeout=10.0); "client" is no
\* argument at the call, the wait being bounded by the default of the
\* client object (httpx.AsyncClient() of regulatory_checker.py:180, the
\* generative model of the LLM calls); "none" is no bound at all:
\* Entrez.esearch and Entrez.efetch are blocking calls without a timeout,
\* and redis.from_url (pubmed_client.py:32) sets no socket timeout
TimeoutOf(site) ==
    CASE site = "rxnav" -> "explicit"
      [] site \in {"fda", "ema"} -> "client"
      [] site \in {"summary_llm", "extraction_llm", "normalizer_llm", "bnf_llm",
                   "who_llm", "dosage_llm", "synthesis_llm"} -> "client"
      [] site \in {"redis_get", "esearch", "efetch", "redis_set"} -> "none"

HungSites == {site \in DOMAIN hstatus : hstatus[site] = "hung"}

\* the requests of a stage, all idle
StageStatus(stage) == [site \in StageSites(stage) |-> "idle"]

\* the request of a call site is sent
HangCall(site) ==
    /\ site \in DOMAIN hstatus
    /\ hstatus[site] = "idle"
    /\ \A b \in Before(site) : hstatus[b] = "resolved"
    /\ hstatus' = [hstatus EXCEPT ![site] = "waiting"]
    /\ UNCHANGED hstage
    /\ UNCHANGED <<pipeVars, regVars, rateVars, litVars, fnVars>>

\* the request is answered or fails at once; the caller goes on
HangAnswer(site) ==
    /\ site \in DOMAIN hstatus
    /\ hstatus[site] = "waiting"
    /\ hstatus' = [hstatus EXCEPT ![site] = "resolved"]
    /\ UNCHANGED hstage
    /\ UNCHANGED <<pipeVars, regVars, rateVars, litVars, fnVars>>

\* the service never answers this request
HangForever(site) ==
    /\ site \in DOMAIN hstatus
    /\ hstatus[site] = "waiting"
    /\ Cardinality(HungSites) < MaxHung
    /\ hstatus' = [hstatus EXCEPT ![site] = "hung"]
    /\ UNCHANGED hstage
    /\ UNCHANGED <<pipeVars, regVars, rateVars, litVars, fnVars>>

\* the timeout of the call site ends the wait with an exception, which the
\* caller handles like any failure
HangTimeout(site) ==
    /\ site \in DOMAIN hstatus
    /\ hstatus[site] = "hung"
    /\ TimeoutOf(site) # "none"
    /\ hstatus' = [hstatus EXCEPT ![site] = "resolved"]
    /\ UNCHANGED hstage
    /\ UNCHANGED <<pipeVars, regVars, rateVars, litVars, fnVars>>

\* every request of the stage is over: the awaits of the stage return
HangAdvance ==
    /\ hstage # "returned"
    /\ \A site \in DOMAIN hstatus : hstatus[site] = "resolved"
    /\ \E i \in 1..(Len(Stages) - 1) :
          /\ Stages[i] = hstage
          /\ hstage' = Stages[i + 1]
          /\ hstatus' = StageStatus(Stages[i + 1])
    /\ UNCHANGED <<pipeVars, regVars, rateVars, litVars, fnVars>>

----------------------------------------------------------------------------
(* Specifications *)

RegIdle ==
    /\ rpc = "idle"
    /\ rvariant = "services"
    /\ rinput = Unset
    /\ rchecks = Unset
    /\ rreplies = Unset
    /\ rstatus = Unset
    /\ rresult = Unset

RateIdle ==
    /\ now = 0
    /\ reqs_per_second = ReqsPerSecond
    /\ request_timestamps = <<>>
    /\ callers = [c \in Callers |-> CallerIdle]
    /\ granted = <<>>
    /\ sleeps = 0

LitIdle ==
    /\ lpc = "idle"
    /\ lvariant = "services"
    /\ lredis = FALSE
    /\ lstore = <<>>
    /\ lwritten = <<>>
    /\ lreq = Unset
    /\ lstrategy = 1
    /\ larticles = Unset
    /\ lcalls = <<>>
    /\ lret = Unset
    /\ lhits = 0
    /\ ldone = 0
    /\ lacquired = 0

FnIdle ==
    /\ fcall = Unset
    /\ freturn = Unset

HangIdle ==
    /\ hstage = "idle"
    /\ hstatus = <<>>

PipeIdle ==
    /\ pc = "idle"
    /\ document = Unset
    /\ full_text = <<>>
    /\ summary_task = Unset
    /\ extraction_task = Unset
    /\ document_summary = Unset
    /\ extracted_drugs = <<>>
    /\ drugs = <<>>
    /\ completed = <<>>
    /\ llm_calls = [summary |-> 0, extraction |-> 0, failed |-> {}]
    /\ result = Unset

Init ==
    /\ pc = "start"
    /\ document \in Documents
    /\ full_text = <<>>
    /\ summary_task = Unset
    /\ extraction_task = Unset
    /\ document_summary = Unset
    /\ extracted_drugs = <<>>
    /\ drugs = <<>>
    /\ completed = <<>>
    /\ llm_calls = [summary |-> 0, extraction |-> 0, failed |-> {}]
    /\ result = Unset
    /\ RegIdle
    /\ RateIdle
    /\ LitIdle
    /\ FnIdle
    /\ HangIdle

Next ==
    \/ LoadDocument
    \/ SummaryDone
    \/ ExtractionDone
    \/ GatherDocument
    \/ \E i \in 1..Len(drugs) : DrugNormalize(i)
    \/ \E i \in 1..Len(drugs) : RegulatoryDone(i)
    \/ \E i \in 1..Len(drugs) : PubmedDone(i)
    \/ \E i \in 1..Len(drugs) : DrugEnrichJoin(i)
    \/ \E i \in 1..Len(drugs) : DrugSynthesize(i)
    \/ Collect

Spec == Init /\ [][Next]_vars

InitReg ==
    /\ PipeIdle
    /\ rpc = "start"
    /\ rvariant \in Variants
    /\ rinput \in RegInputs
    /\ rchecks = [k \in RegulatorSet |-> Unset]
    /\ rreplies = [k \in RegulatorSet \cup {"DOSAGE"} |-> Unset]
    /\ rstatus = Unset
    /\ rresult = Unset
    /\ RateIdle
    /\ LitIdle
    /\ FnIdle
    /\ HangIdle

NextReg ==
    \/ RegLaunch
    \/ \E key \in RegulatorSet : RegCheckDone(key)
    \/ RegCombine
    \/ RegDosageDone

SpecReg == InitReg /\ [][NextReg]_vars

InitRate ==
    /\ PipeIdle
    /\ RegIdle
    /\ now = 0
    /\ reqs_per_second \in Configurations
    /\ request_timestamps = <<>>
    /\ callers = [c \in Callers |-> CallerIdle]
    /\ granted = <<>>
    /\ sleeps = 0
    /\ LitIdle
    /\ FnIdle
    /\ HangIdle

NextRate ==
    \/ \E c \in Callers : RateLimitEnter(c)
    \/ \E c \in Callers : RateLimitWake(c)
    \/ Tick
    \/ Pause

SpecRate == InitRate /\ [][NextRate]_vars

InitLit ==
    /\ PipeIdle
    /\ RegIdle
    /\ RateIdle
    /\ lpc = "start"
    /\ lvariant \in Variants
    /\ lredis \in BOOLEAN
    /\ lstore = <<>>
    /\ lwritten = <<>>
    /\ lreq = Unset
    /\ lstrategy = 1
    /\ larticles = Unset
    /\ lcalls = <<>>
    /\ lret = Unset
    /\ lhits = 0
    /\ ldone = 0
    /\ lacquired = 0
    /\ FnIdle
    /\ HangIdle

NextLit ==
    \/ LitBegin
    \/ LitCacheGet
    \/ LitSearch
    \/ LitFetch
    \/ LitCacheSet
    \/ LitExpire

SpecLit == InitLit /\ [][NextLit]_vars

InitFn ==
    /\ PipeIdle
    /\ RegIdle
    /\ RateIdle
    /\ LitIdle
    /\ fcall \in FnCalls
    /\ freturn = Unset
    /\ HangIdle

NextFn ==
    \/ ApplyExtractGrade
    \/ ApplyNormalizeDrug
    \/ ApplyGenerateAiAnalysis

SpecFn == InitFn /\ [][NextFn]_vars

InitHang ==
    /\ PipeIdle
    /\ RegIdle
    /\ RateIdle
    /\ LitIdle
    /\ FnIdle
    /\ hstage = "document"
    /\ hstatus = StageStatus("document")

HangSites == UNION {StageSites(Stages[i]) : i \in 1..Len(Stages)}

NextHang ==
    \/ \E site \in HangSites : HangCall(site)
    \/ \E site \in HangSites : HangAnswer(site)
    \/ \E site \in HangSites : HangForever(site)
    \/ \E site \in HangSites : HangTimeout(site)
    \/ HangAdvance

\* the event loop runs every coroutine that can run, every answer that is
\* to come arrives, and every timeout fires; nothing obliges a service to
\* leave a request unanswered
SpecHang ==
    /\ InitHang
    /\ [][NextHang]_vars
    /\ \A site \in HangSites :
          /\ WF_vars(HangCall(site))
          /\ WF_vars(HangAnswer(site))
          /\ WF_vars(HangTimeout(site))
    /\ WF_vars(HangAdvance)

----------------------------------------------------------------------------
(* Properties *)

Started == pc \in {"fanout", "done"} /\ Len(drugs) > 0
Returned == pc = "done" /\ Len(drugs) > 0
Entries == result.analysis_results

\* a mention that is a dict carrying a non-empty source name
HasSourceName(m) ==
    /\ m.t = "dict"
    /\ m.drug_name_source.t = "str"
    /\ Len(m.drug_name_source.s) > 0

\* C1: when some process_single_drug invocations of the fan-out raise, the
\* pipeline still returns {document_summary, analysis_results} and every
\* DrugAnalysis that an invocation returned is in it; nothing else is.
\* (No behaviour has an invocation that raises: the one mention that makes
\* process_single_drug raise, an item without .get, already makes the loop
\* of lines 269-272 raise before the coroutines are created.)
C1_RaisingDrugDoesNotFailBatch ==
    Returned =>
        /\ result.t = "ok"
        /\ DOMAIN result = {"t", "document_summary", "analysis_results"}
        /\ \A i \in 1..Len(drugs) :
              drugs[i].ret.t = "dict" =>
                  \E j \in 1..Len(Entries) : Entries[j] = drugs[i].ret
        /\ Len(Entries) = Cardinality({i \in 1..Len(drugs) : drugs[i].ret.t = "dict"})

\* C2 as stated: analysis_results has exactly one entry per extracted mention.
C2_Original ==
    Returned => (result.t = "ok" /\ Len(Entries) = Len(extracted_drugs))

\* C2 amended: analysis_results has exactly one entry per extracted mention
\* that is a dict with a non-empty source name, whatever stages fail for it;
\* the other mentions have none.
C2_OneEntryPerNamedMention ==
    Returned =>
        /\ result.t = "ok"
        /\ Len(Entries) =
              Cardinality({i \in 1..Len(extracted_drugs) :
                              HasSourceName(extracted_drugs[i])})
        /\ \A i \in 1..Len(extracted_drugs) :
              HasSourceName(extracted_drugs[i]) <=> drugs[i].ret.t = "dict"

C2_Witness ==
    /\ Returned
    /\ Len(Entries) = Len(extracted_drugs)
    /\ \E j \in 1..Len(Entries) :
          /\ Entries[j].regulatory_checks = RegPlaceholder
          /\ Entries[j].ai_analysis = AiError
    /\ \E j \in 1..Len(Entries) : Entries[j].normalization = NormalizationError

AllSlotsSet(e) ==
    /\ DOMAIN e = {"t", "source_data", "normalization", "regulatory_checks",
                   "pubmed_articles", "ai_analysis"}
    /\ e.normalization.t = "dict"
    /\ e.regulatory_checks.t = "dict"
    /\ e.pubmed_articles.t = "list"
    /\ e.ai_analysis.t = "dict"

\* C3: every entry of analysis_results, partial or complete, has its
\* normalization, regulatory_checks, pubmed_articles and ai_analysis slots
\* set to a value (a dict or a list), besides source_data.
C3_AllFourSlotsSet ==
    (Returned /\ result.t = "ok") =>
        \A j \in 1..Len(Entries) : AllSlotsSet(Entries[j])

C3_Witness ==
    /\ Returned
    /\ result.t = "ok"
    /\ \E j \in 1..Len(Entries) : Entries[j].ai_analysis = AiUnknown
    /\ \E j \in 1..Len(Entries) :
          /\ Entries[j].ai_analysis = AiError
          /\ Entries[j].regulatory_checks # RegPlaceholder

\* C4: whatever the order in which the coroutines finish, analysis_results
\* is an order-preserving subsequence of the per-mention results.
C4_ExtractionOrderPreserved ==
    (Returned /\ result.t = "ok") =>
        \E f \in [1..Len(Entries) -> 1..Len(drugs)] :
            /\ \A j \in 1..Len(Entries) :
                  /\ Entries[j] = drugs[f[j]].ret
                  /\ Entries[j].source_data = extracted_drugs[f[j]]
            /\ \A j, k \in 1..Len(Entries) : j < k => f[j] < f[k]

C4_Witness ==
    /\ Returned
    /\ result.t = "ok"
    /\ Len(Entries) = 2
    /\ Entries[1] # Entries[2]
    /\ \E a, b \in 1..Len(completed) :
          /\ a < b
          /\ completed[a] > completed[b]
          /\ drugs[completed[a]].ret.t = "dict"
          /\ drugs[completed[b]].ret.t = "dict"

\* a source name that is whitespace only or the sentinel
BlankOrSentinelName(m) ==
    /\ HasSourceName(m)
    /\ \/ Len(Strip(m.drug_name_source.s)) = 0
       \/ Lower(Strip(m.drug_name_source.s)) = S_unknown

IsNoIdentifierPlaceholder(e) ==
    /\ e.t = "dict"
    /\ e.regulatory_checks = RegPlaceholder
    /\ e.pubmed_articles = PyList(<<>>)
    /\ e.ai_analysis = AiUnknown

\* C5 as stated: a mention whose source name is blank or the sentinel
\* "unknown" ends in the "no identifier" placeholder, with no call to
\* check_all_regulators and none to the PubMed client.  (The empty name,
\* which C6 covers, is left out here.)
C5_Original ==
    Started =>
        \A i \in 1..Len(drugs) :
            (drugs[i].pc # "start" /\ BlankOrSentinelName(extracted_drugs[i])) =>
                /\ drugs[i].pc = "done"
                /\ IsNoIdentifierPlaceholder(drugs[i].ret)
                /\ drugs[i].reg_calls = 0
                /\ drugs[i].pub_calls = 0

EmptyName(m) ==
    /\ m.t = "dict"
    /\ m.drug_name_source.t = "str"
    /\ Len(m.drug_name_source.s) = 0

\* C6: for a mention with an empty source name process_single_drug returns
\* no DrugAnalysis (None, not a placeholder) and analysis_results has no
\* entry for it.
C6_EmptyNameDropped ==
    /\ Started =>
          \A i \in 1..Len(drugs) :
              (drugs[i].pc # "start" /\ EmptyName(extracted_drugs[i])) =>
                  (drugs[i].pc = "done" /\ drugs[i].ret = PyNone)
    /\ (Returned /\ result.t = "ok") =>
          /\ \A j \in 1..Len(Entries) : ~EmptyName(Entries[j].source_data)
          /\ Len(Entries) <=
                Cardinality({i \in 1..Len(extracted_drugs) :
                                ~EmptyName(extracted_drugs[i])})

C6_Witness ==
    /\ Returned
    /\ result.t = "ok"
    /\ \E i \in 1..Len(extracted_drugs) : EmptyName(extracted_drugs[i])
    /\ Len(Entries) = 1
    /\ Len(extracted_drugs) = 2

\* an INN that is null, empty, whitespace only or the sentinel
NullBlankOrSentinelInn(inn) ==
    \/ inn = PyNone
    \/ /\ inn.t = "str"
       /\ \/ Len(Strip(inn.s)) = 0
          \/ Lower(Strip(inn.s)) = S_unknown

\* C7 as stated: once normalization gave a null, blank or sentinel INN the
\* drug is over, with the normalization result, empty regulatory checks, no
\* articles and grade "Unknown", and nothing was called for it.
C7_Original ==
    Started =>
        \A i \in 1..Len(drugs) :
            (/\ drugs[i].normalization # Unset
             /\ NullBlankOrSentinelInn(drugs[i].normalization.inn_name)) =>
                /\ drugs[i].pc = "done"
                /\ drugs[i].ret =
                      DrugAnalysis(extracted_drugs[i], drugs[i].normalization,
                                   RegPlaceholder, PyList(<<>>), AiUnknown)
                /\ drugs[i].reg_calls = 0
                /\ drugs[i].pub_calls = 0
                /\ drugs[i].ai_calls = 0

\* a document that opens and has no paragraph or cell with visible text
HasNoText(doc) ==
    /\ doc.loads
    /\ \A i \in 1..Len(doc.paragraphs) : doc.paragraphs[i] \in Seq(Whitespace)
    /\ \A i \in 1..Len(doc.cells) : doc.cells[i] \in Seq(Whitespace)

\* C8: for a document whose text is empty or whitespace only the pipeline
\* returns an error result; the summary request, the extraction request and
\* the per-drug pipelines never start.
C8_EmptyDocumentIsError ==
    (HasNoText(document) /\ pc # "start") =>
        /\ pc = "done"
        /\ result.t = "error"
        /\ summary_task = Unset
        /\ extraction_task = Unset
        /\ llm_calls = [summary |-> 0, extraction |-> 0, failed |-> {}]
        /\ drugs = <<>>

C8_Witness ==
    /\ pc = "done"
    /\ HasNoText(document)
    /\ Len(document.paragraphs) > 0
    /\ result = ErrorResult("empty")

RegReturned == rpc = "done" /\ rresult.t = "dict"

\* C9: whatever the four checks answer, the regulatory_checks map that
\* check_all_regulators returns has exactly the keys FDA, EMA, BNF, WHO_EML.
C9_ExactlyFourKeys ==
    RegReturned => DOMAIN rresult.regulatory_checks = {"FDA", "EMA", "BNF", "WHO_EML"}

C9_Witness ==
    /\ RegReturned
    /\ \E k \in RegulatorSet : rreplies[k].kind = "raise"
    /\ \E k \in RegulatorSet : rreplies[k].kind # "raise"

\* C10: a regulator whose request failed has a status record with status
\* "Error" under its key, and every other key holds the value its check
\* produced.
C10_FailedCheckIsErrorRecord ==
    RegReturned =>
        \A k \in RegulatorSet :
            /\ k \in DOMAIN rresult.regulatory_checks
            /\ rresult.regulatory_checks[k] = rchecks[k]
            /\ rreplies[k].kind = "raise" =>
                  /\ rresult.regulatory_checks[k].t = "dict"
                  /\ rresult.regulatory_checks[k].status = "Error"

C10_Witness ==
    /\ RegReturned
    /\ Cardinality({k \in RegulatorSet : rreplies[k].kind = "raise"}) = 1
    /\ rresult.regulatory_checks["FDA"].status \notin {"Error", "Not Found"}

\* acquisitions that completed in the one-second interval starting at t
WindowCount(t) ==
    Cardinality({i \in 1..Len(granted) : granted[i] >= t /\ granted[i] < t + OneSecond})

\* C12 as stated, for the default client: no interval of one second holds more than 9 completed
\* acquisitions, and a run of more calls than the ceiling inside one second
\* has slept at least once.
C12_Original ==
    reqs_per_second = ReqsPerSecond =>
       /\ \A t \in 0..MaxClock : WindowCount(t) <= Ceiling
       /\ (\E t \in 0..MaxClock : WindowCount(t) > Ceiling) => sleeps >= 1

\* acquisitions granted during the second that ends now
TrailingCount ==
    Cardinality({i \in 1..Len(granted) : now - granted[i] < OneSecond})

\* C13 as stated, for the default client: when two coroutines are suspended in the limiter's
\* sleep at once, the acquisitions granted within the trailing second do not exceed
\* the ceiling.
C13_Original ==
    (/\ reqs_per_second = ReqsPerSecond
     /\ \E c, d \in Callers :
           c # d /\ callers[c].pc = "sleeping" /\ callers[d].pc = "sleeping")
        => TrailingCount <= Ceiling

\* the Entrez requests of the search in progress
IsEsearch(c) == c.op = "esearch"
IsEfetch(c) == c.op = "efetch"
Esearches == SelectSeq(lcalls, IsEsearch)
Efetches == SelectSeq(lcalls, IsEfetch)

\* C11 as stated: the strategies are searched from the most specific to the
\* broadest, no esearch is sent once an earlier esearch has returned ids,
\* and a search whose first strategy finds nothing and whose second finds
\* ids ends with exactly two esearch calls and one efetch call.
C11_Original ==
    /\ \A i, j \in 1..Len(Esearches) :
          i < j => Esearches[i].strategy < Esearches[j].strategy
    /\ \A i, j \in 1..Len(lcalls) :
          (i < j /\ IsEsearch(lcalls[i]) /\ lcalls[i].outcome = "ids")
              => ~IsEsearch(lcalls[j])
    /\ (/\ lpc = "done"
        /\ Len(Esearches) >= 2
        /\ Esearches[1].outcome = "no ids"
        /\ Esearches[2].outcome = "ids")
            => (Len(Esearches) = 2 /\ Len(Efetches) = 1)

\* C14: every value a search has written to the cache decodes to the
\* article list it was made from, and a read that finds the key ends the
\* search with that article list, however often the read is repeated.
C14_CacheRoundTrip ==
    /\ \A k \in DOMAIN lstore : JsonLoads(lstore[k].s) = lwritten[k]
    /\ (lcalls # <<>> /\ lcalls[Len(lcalls)].op = "get"
            /\ lcalls[Len(lcalls)].outcome = "value")
          => /\ lpc = "done"
             /\ lhits >= 1
             /\ LitKey \in DOMAIN lwritten => lret = lwritten[LitKey]

C14_Witness ==
    /\ lpc = "done"
    /\ lhits >= 2
    /\ lret = lwritten[LitKey]
    /\ Len(lret.items) = 2
    /\ lret.items[1].title = PyStr(S_quoted)

IsFailedGet(c) == c.op = "get" /\ c.outcome \in {"raise", "garbage"}

\* C15: a cache read that fails or returns an undecodable value is followed
\* by the esearch of the same strategy; after a cache write, failed or not,
\* the search returns the list it built; without a redis client no cache
\* request is made; and the search always returns a list.
C15_CacheFailuresAreMisses ==
    /\ \A i \in 1..Len(lcalls) :
          IsFailedGet(lcalls[i]) =>
              IF i = Len(lcalls)
              THEN lpc = "search"
              ELSE /\ IsEsearch(lcalls[i + 1])
                   /\ lcalls[i + 1].strategy = lcalls[i].strategy
    /\ (lpc = "done" /\ lcalls # <<>> /\ lcalls[Len(lcalls)].op = "set")
          => lret = larticles
    /\ ~lredis =>
          /\ \A i \in 1..Len(lcalls) : lcalls[i].op \in {"esearch", "efetch"}
          /\ lstore = <<>>
    /\ lpc = "done" => lret.t = "list"

C15_Witness ==
    /\ lpc = "done"
    /\ Len(lcalls) >= 4
    /\ IsFailedGet(lcalls[1])
    /\ lcalls[Len(lcalls)] = [op |-> "set", strategy |-> lstrategy, outcome |-> "raise"]
    /\ Len(lret.items) = 2

HasVeryLow(text) ==
    Contains(Lower(text), K_very_low) \/ Contains(Lower(text), K_ochen_nizkiy)

\* C16 as stated: every raw text that contains "very low" or its Russian
\* counterpart is classified "Very Low".
C16_Original ==
    (fcall.fn = "extract_grade_from_text" /\ freturn # Unset /\ HasVeryLow(fcall.arg))
        => freturn.grade = "Very Low"

\* C17 as stated: whatever the model call and the parsing do,
\* generate_ai_analysis returns a dict with ud_ai_grade, ud_ai_justification
\* and ai_summary_note, its grade being "Error" when the call failed.
C17_Original ==
    (fcall.fn = "generate_ai_analysis" /\ freturn # Unset) =>
        /\ freturn.t = "dict"
        /\ {"ud_ai_grade", "ud_ai_justification", "ai_summary_note"} \subseteq DOMAIN freturn
        /\ fcall.arg.reply.kind = "raise" => freturn.ud_ai_grade = "Error"

\* C18: for a mention with a non-empty source name process_single_drug
\* never ends in an exception, whatever the normalizer, the regulatory
\* checker, the PubMed client and the synthesizer do: it returns a dict with
\* all five slots, and a slot filled by one stage keeps its value through
\* every later stage and in the returned dict.
C18_NeverRaisesNoRollback ==
    [][\A i \in DOMAIN drugs \cap DOMAIN drugs' :
          HasSourceName(extracted_drugs[i]) =>
             /\ drugs'[i].pc = "done" =>
                   /\ AllSlotsSet(drugs'[i].ret)
                   /\ drugs'[i].ret.source_data = extracted_drugs[i]
                   /\ drugs'[i].ret.normalization = drugs'[i].normalization
             /\ drugs[i].pc # "start" =>
                   drugs'[i].normalization = drugs[i].normalization
             /\ drugs[i].pc = "synthesizing" =>
                   /\ drugs'[i].regulatory = drugs[i].regulatory
                   /\ drugs'[i].pubmed = drugs[i].pubmed
                   /\ drugs'[i].pc = "done" =>
                         /\ drugs'[i].ret.regulatory_checks = drugs[i].regulatory
                         /\ drugs'[i].ret.pubmed_articles = drugs[i].pubmed
             /\ drugs[i].pc = "done" => drugs'[i] = drugs[i]
      ]_vars

\* the normalizer raised for one mention; for another the regulatory
\* checker, the PubMed search and the synthesizer all failed
C18_Witness ==
    /\ \E i \in DOMAIN drugs :
          /\ HasSourceName(extracted_drugs[i])
          /\ drugs[i].pc = "done"
          /\ drugs[i].ret.normalization = NormalizationError
    /\ \E i \in DOMAIN drugs :
          /\ HasSourceName(extracted_drugs[i])
          /\ drugs[i].pc = "done"
          /\ drugs[i].ai_calls = 1
          /\ drugs[i].ret.regulatory_checks = RegPlaceholder
          /\ drugs[i].ret.pubmed_articles = PyList(<<>>)
          /\ drugs[i].ret.ai_analysis = AiError

\* C19: when the inner gather returns and exactly one of
\* check_all_regulators and search_articles raised, the slot of the one
\* that raised becomes its placeholder and the other slot holds the value
\* its call returned.
C19_OneFailureKeepsTheOther ==
    [][\A i \in DOMAIN drugs \cap DOMAIN drugs' :
          (drugs[i].pc = "enriching" /\ drugs'[i].pc = "synthesizing") =>
             /\ (IsExc(drugs[i].regulatory) /\ ~IsExc(drugs[i].pubmed)) =>
                   /\ drugs'[i].regulatory = RegPlaceholder
                   /\ drugs'[i].pubmed = drugs[i].pubmed
             /\ (~IsExc(drugs[i].regulatory) /\ IsExc(drugs[i].pubmed)) =>
                   /\ drugs'[i].regulatory = drugs[i].regulatory
                   /\ drugs'[i].pubmed = PyList(<<>>)
      ]_vars

\* after the gather: one drug whose regulatory check raised while its
\* search returned two articles, another whose regulatory check returned
\* its four records while the slot of its search is empty
C19_Witness ==
    /\ \E i \in DOMAIN drugs :
          /\ drugs[i].pc = "synthesizing"
          /\ drugs[i].regulatory = RegPlaceholder
          /\ Len(drugs[i].pubmed.items) = 2
    /\ \E i \in DOMAIN drugs :
          /\ drugs[i].pc = "synthesizing"
          /\ DOMAIN drugs[i].regulatory.regulatory_checks = RegulatorSet
          /\ drugs[i].pubmed = PyList(<<>>)

\* C20: generate_ai_analysis has been called for a drug only if both
\* check_all_regulators and search_articles were started for it and
\* neither is still in flight.
C20_SynthesisAfterBothFinished ==
    \A i \in DOMAIN drugs :
       (drugs[i].ai_calls > 0 \/ drugs[i].pc = "synthesizing") =>
          /\ drugs[i].reg_calls = 1
          /\ drugs[i].pub_calls = 1
          /\ drugs[i].regulatory \notin {Unset, Pending}
          /\ drugs[i].pubmed \notin {Unset, Pending}

\* the synthesizer runs for one drug while the search of another drug,
\* whose regulatory check is over, is still in flight
C20_Witness ==
    \E i, j \in DOMAIN drugs :
       /\ drugs[i].pc = "synthesizing"
       /\ drugs[i].ai_calls = 1
       /\ drugs[j].pc = "enriching"
       /\ drugs[j].regulatory # Pending
       /\ drugs[j].pubmed = Pending
       /\ drugs[j].ai_calls = 0

\* C21: the summary task and the extraction task fail independently.  When
\* the extraction request raises, the drug list is empty and the summary
\* the summary task produced is the one returned; when the summary request
\* raises, the summary is the fixed placeholder and the drugs the
\* extraction produced are the ones handed to the fan-out.
C21_TasksFailIndependently ==
    (pc \in {"fanout", "done"} /\ document_summary # Unset) =>
       /\ document_summary = summary_task
       /\ extracted_drugs = extraction_task.items
       /\ "summary" \in llm_calls.failed <=> document_summary = SummaryFailed
       /\ "extraction" \in llm_calls.failed =>
             /\ extracted_drugs = <<>>
             /\ result.t = "ok"
             /\ result.document_summary = summary_task
       /\ (pc = "fanout" \/ result.t = "ok") =>
             /\ DOMAIN drugs = DOMAIN extracted_drugs
             /\ result.t = "ok" => result.document_summary = document_summary

\* the summary request raised and two extracted drugs are in the fan-out
C21_Witness ==
    /\ pc = "fanout"
    /\ llm_calls.failed = {"summary"}
    /\ document_summary = SummaryFailed
    /\ Len(drugs) = 2

\* C22: when the extraction yields no drug, also after a failed extraction
\* request, the pipeline returns the summary, an empty analysis_results
\* and the "no drugs" message, which is not an error, and no
\* process_single_drug coroutine is created.
C22_NoDrugsIsNotAnError ==
    (pc \in {"fanout", "done"} /\ document_summary # Unset
        /\ extraction_task.items = <<>>) =>
       /\ pc = "done"
       /\ result = [t |-> "ok", document_summary |-> document_summary,
                    analysis_results |-> <<>>, message |-> "no drugs"]
       /\ drugs = <<>>
       /\ completed = <<>>

\* the extraction request raised and the pipeline returned the summary of
\* the summary task with the message
C22_Witness ==
    /\ pc = "done"
    /\ llm_calls.failed = {"extraction"}
    /\ extraction_task = PyList(<<>>)
    /\ result.t = "ok"
    /\ result.message = "no drugs"
    /\ result.document_summary = PyStr(S_text)

\* a logged esearch or efetch that raised
IsFailedCall(call) == call.op \in {"esearch", "efetch"} /\ call.outcome = "raise"

\* C23: in both variants of the literature search, a strategy whose
\* esearch or efetch raised counts as having found nothing, and the next
\* strategy is still tried before the search returns.
C23_Original ==
    lpc = "done" =>
       \A j \in 1..Len(lcalls) :
          (IsFailedCall(lcalls[j]) /\ lcalls[j].strategy < Len(LitStrategies)) =>
             \E k \in (j + 1)..Len(lcalls) :
                lcalls[k].strategy = lcalls[j].strategy + 1

\* a logged call that produced articles: a cache hit or an efetch whose
\* records were parsed
FoundArticles(call) ==
    \/ call.op = "get" /\ call.outcome = "value"
    \/ call.op = "efetch" /\ call.outcome = "ok"

\* C24: the literature search returns a list and never an exception; when
\* every strategy found no ids or failed, the list is empty.
C24_ExhaustedSearchIsEmptyList ==
    lpc = "done" =>
       /\ lret.t = "list"
       /\ \A j \in 1..Len(lret.items) : lret.items[j].t = "dict"
       /\ (\A j \in 1..Len(lcalls) : ~FoundArticles(lcalls[j])) => lret = PyList(<<>>)

\* the backend search went through its three strategies: one esearch
\* raised, one efetch raised, one esearch found no ids
C24_Witness ==
    /\ lpc = "done"
    /\ lvariant = "backend"
    /\ lstrategy = 3
    /\ lret = PyList(<<>>)
    /\ \E j \in 1..Len(lcalls) : lcalls[j].op = "esearch" /\ lcalls[j].outcome = "raise"
    /\ \E j \in 1..Len(lcalls) : lcalls[j].op = "efetch" /\ lcalls[j].outcome = "raise"
    /\ lcalls[Len(lcalls)] = [op |-> "esearch", strategy |-> 3, outcome |-> "no ids"]

\* C25 as stated: for an empty, a blank or the sentinel name normalize_drug
\* returns a null INN with confidence "none" and sends nothing to RxNav or
\* to the LLM.
C25_Original ==
    (fcall.fn = "normalize_drug" /\ freturn # Unset
        /\ (Len(Strip(fcall.arg.drug_name.s)) = 0
            \/ Lower(Strip(fcall.arg.drug_name.s)) \in InnSentinels)) =>
       /\ freturn.result.inn_name = PyNone
       /\ freturn.result.confidence = "none"
       /\ freturn.calls = [rxnav |-> 0, llm |-> 0]

\* the LLM answered the fallback request with a name of more than two
\* characters
LlmGaveName(reply) == reply.kind = "text" /\ Len(Strip(reply.text)) > 2

\* C26 as stated: the LLM is asked only when the lookup gave no name;
\* confidence is "high" exactly when the lookup gave the INN, "medium"
\* exactly when the lookup gave nothing and the LLM answered with a name of
\* more than two characters, and otherwise "none" with a null INN.
C26_Original ==
    (fcall.fn = "normalize_drug" /\ freturn # Unset
        /\ Len(Strip(fcall.arg.drug_name.s)) > 0) =>
       LET found == Truthy(NormalizeWithRxnav(fcall.arg.drug_name, fcall.arg.rxnav))
           normalized == freturn.result
       IN  /\ freturn.calls.rxnav = 1
           /\ freturn.calls.llm = 1 <=> ~found
           /\ normalized.confidence = "high" <=> found
           /\ normalized.confidence = "medium" <=> (~found /\ LlmGaveName(fcall.arg.llm))
           /\ normalized.confidence \notin {"high", "medium"} =>
                 (normalized.confidence = "none" /\ normalized.inn_name = PyNone)

DosageTokens == {"within_range", "below_range", "above_range", "mismatch"}

\* the comparison request was answered with one of the three range tokens
GaveRangeToken(reply) ==
    /\ reply # Unset
    /\ reply.kind # "raise"
    /\ \/ /\ reply.json # PyAbsent
          /\ "comparison_result" \in DOMAIN reply.json
          /\ reply.json.comparison_result \in DosageTokens \ {"mismatch"}
       \/ \E token \in {T_within, T_below, T_above} : Contains(Lower(reply.text), token)

\* C27 as stated: dosage_check.comparison_result is always one of the four
\* tokens, and it is mismatch when no comparison was requested, when the
\* request failed, and when the answer carries no range token.
C27_Original ==
    RegReturned =>
       LET dosage_check == rresult.dosage_check
       IN  /\ "comparison_result" \in DOMAIN dosage_check
           /\ dosage_check.comparison_result \in DosageTokens
           /\ ~GaveRangeToken(rreplies["DOSAGE"]) =>
                 dosage_check.comparison_result = "mismatch"

\* C28: the comparison request is sent only once all four checks have
\* resolved and the FDA entry carries a non-empty standard dosage text, and
\* at most once per call; when the FDA entry is an error, not found or
\* without dosage text, dosage_check is mismatch and no request is sent.
C28_DosageAfterChecksAtMostOnce ==
    [][/\ rpc' = "dosage" =>
             /\ \A k \in RegulatorSet : rchecks'[k] \notin {Unset, Pending}
             /\ HasStandardDosage(rstatus')
       /\ rreplies'["DOSAGE"] # rreplies["DOSAGE"] =>
             /\ rreplies["DOSAGE"] = Unset
             /\ rpc = "dosage"
             /\ rpc' = "done"
       /\ (rpc' = "done" /\ rresult'.t = "dict"
              /\ ~HasStandardDosage(rresult'.regulatory_checks)) =>
             /\ rresult'.dosage_check = DosageMismatch
             /\ rreplies'["DOSAGE"] = Unset
      ]_vars

\* a call that sent the comparison request after a failed EMA check, the
\* answer being the above_range token
C28_Witness ==
    /\ RegReturned
    /\ rreplies["EMA"].kind = "raise"
    /\ rreplies["DOSAGE"] = LlmReply(T_above, PyAbsent)
    /\ HasStandardDosage(rresult.regulatory_checks)

\* C29 as stated: in both variants all four checks are in flight before
\* any of them has to complete, so that no check waits for another one to
\* start.
C29_Original ==
    rpc = "checks" =>
       \A k \in RegulatorSet :
          rchecks[k] = Pending => InFlight(rvariant, rchecks, k)

\* C30 as stated: every external call site carries a timeout, so that a
\* run in which one request never gets its answer still returns.
C30_Original == <>(hstage = "returned")

\* C31 as stated: what is written to the cache under the key of a query is
\* the list obtained by running that very query; the articles of a broader
\* query are never stored under the key of the narrower one.
C31_Original ==
    \A j \in 1..Len(lcalls) :
       (lcalls[j].op = "set" /\ lcalls[j].outcome = "ok") =>
          CacheKey(lvariant, LitStrategies, lcalls[j].strategy).query
             = LitStrategies[lcalls[j].strategy]

\* C32: a cache hit for the key of the current strategy ends the search
\* at once with the cached list: the step that reads the value makes no
\* _rate_limit acquisition, no esearch or efetch call and no cache write,
\* and leaves the limiter's timestamps as they were.
C32_HitReturnsCachedAtOnce ==
    [][(/\ lpc = "cache_get"
        /\ lcalls' # lcalls
        /\ lcalls'[Len(lcalls')].outcome = "value")
          => /\ lpc' = "done"
             /\ lret' = lwritten[LitKey]
             /\ lcalls' = Append(lcalls, [op |-> "get", strategy |-> lstrategy,
                                          outcome |-> "value"])
             /\ lacquired' = lacquired
             /\ lstore' = lstore
             /\ request_timestamps' = request_timestamps]_vars

\* the backend search missed on its first strategy, made one esearch that
\* found nothing, and hit on the key of its second strategy
C32_Witness ==
    /\ lpc = "done"
    /\ lvariant = "backend"
    /\ lacquired = 1
    /\ Len(lcalls) = 3
    /\ lcalls[3] = [op |-> "get", strategy |-> 2, outcome |-> "value"]
    /\ lret = lwritten[LitKey]
    /\ Len(lret.items) = 2

\* every efetch follows at once an esearch of the same strategy that returned ids
FetchOnlyForIds ==
    \A j \in 1..Len(lcalls) :
       IsEfetch(lcalls[j]) =>
          /\ j > 1
          /\ lcalls[j - 1] = [op |-> "esearch", strategy |-> lcalls[j].strategy,
                              outcome |-> "ids"]

\* C33 as stated: efetch is called only for a non-empty id list returned
\* by esearch, a strategy whose esearch returned no ids gets no efetch,
\* and one search makes at most one efetch call.
C33_Original ==
    /\ FetchOnlyForIds
    /\ \A i, j \in 1..Len(lcalls) :
          (IsEsearch(lcalls[i]) /\ lcalls[i].outcome = "no ids" /\ IsEfetch(lcalls[j]))
              => lcalls[j].strategy # lcalls[i].strategy
    /\ Len(Efetches) <= 1

\* C39: every esearch and every efetch of a search is made after its own
\* completed _rate_limit call: the acquisitions made so far are as many as
\* the external calls attempted, whatever the calls returned.
C39_OneAcquisitionPerExternalCall ==
    lacquired = Len(Esearches) + Len(Efetches)

\* a backend search whose first efetch failed: two esearch and two efetch
\* calls, four acquisitions
C39_Witness ==
    /\ lpc = "done"
    /\ lvariant = "backend"
    /\ Len(Esearches) = 2
    /\ Len(Efetches) = 2
    /\ lacquired = 4

\* the step is the entry of a _rate_limit call (lines 47-59)
EnteredRateLimit ==
    /\ now' = now
    /\ \/ sleeps' = sleeps + 1
       \/ callers' = callers /\ Len(granted') = Len(granted) + 1

\* C34 as stated: a client constructed with reqs_per_second = c suspends
\* a call exactly when c or more timestamps remain within the trailing
\* second, whatever c is.
C34_Original ==
    [][EnteredRateLimit =>
          (sleeps' = sleeps + 1
             <=> Len(DropExpired(request_timestamps, now)) >= reqs_per_second)]_vars

\* the deque is ordered by time from front to back
TimestampsOrdered ==
    \A i, j \in 1..Len(request_timestamps) :
       i < j => request_timestamps[i] <= request_timestamps[j]

\* C35 as stated: the deque is ordered by time and each timestamp in it is
\* the clock reading at which its acquisition was granted, after any sleep.
C35_Original ==
    /\ TimestampsOrdered
    /\ LET dropped == Len(granted) - Len(request_timestamps)
       IN  \A i \in 1..Len(request_timestamps) :
              request_timestamps[i] = granted[dropped + i]

\* run_analysis_pipeline returned or raised
PipelineOver == pc = "done"

C37_NormalizeDrugNeverRaises ==
    (fcall.fn = "normalize_drug" /\ freturn # Unset) =>
       LET normalized == freturn.result
           named == Len(Strip(fcall.arg.drug_name.s)) > 0
       IN  /\ ~IsExc(normalized)
           /\ DOMAIN normalized = {"t", "inn_name", "source", "confidence"}
           /\ (named /\ fcall.arg.rxnav.kind = "raise") =>
                 /\ freturn.calls.llm = 1
                 /\ normalized.source # "RxNav"
           /\ (named /\ fcall.arg.rxnav.kind # "name" /\ fcall.arg.llm.kind = "raise") =>
                 /\ normalized.inn_name = PyNone
                 /\ normalized.confidence = "none"

\* the lookup failed, the LLM was asked and its request failed too
C37_Witness ==
    /\ fcall.fn = "normalize_drug"
    /\ freturn # Unset
    /\ fcall.arg.drug_name = PyStr(S_aspirin)
    /\ fcall.arg.rxnav = RxNavError
    /\ fcall.arg.llm = LlmError
    /\ freturn.calls = [rxnav |-> 1, llm |-> 1]
    /\ freturn.result = NormalizationNA

\* the mention carries a source name and a pre-extracted INN that line 98
\* accepts
HasExistingInn(m) ==
    /\ HasSourceName(m)
    /\ LET existing_inn == DictGet(m, "inn_name", PyStr(S_empty))
       IN  Truthy(existing_inn) /\ Lower(existing_inn.s) \notin InnSentinels

\* the normalization try block of drug i ended in its handler (lines 105-108)
\* and the drug is over as a partial entry, nothing having been called
NormalizationErrorIsPartial(i) ==
    drugs[i].normalization = NormalizationError =>
       /\ drugs[i].pc = "done"
       /\ drugs[i].ret = PartialResult(extracted_drugs[i], NormalizationError)
       /\ drugs[i].reg_calls = 0
       /\ drugs[i].pub_calls = 0
       /\ drugs[i].ai_calls = 0

====
